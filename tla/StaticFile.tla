----------------------------- MODULE StaticFile -----------------------------
(***************************************************************************)
(* PsychicStaticFileHandler and PsychicFileResponse: which file a URI      *)
(* names, in which of its two forms it is looked for, and what is sent.    *)
(* The handler looks first and sends later: in between it keeps a file     *)
(* name and an open file, which are members of the handler.                *)
(***************************************************************************)
EXTENDS HttpResponse

CONSTANT NoFile

\* _last_modified, while the application has told of no time; a time is a number.
NoStamp == 0

\* The file system: regular file |-> the version of its content, 0 if it is not there.
\* A file's size tells its name and version.
IsFile(fs, name) == name \in DOMAIN fs /\ fs[name] # 0
Exists(fs, dirs, name) == IsFile(fs, name) \/ name \in dirs
Gz(name) == Append(name, ".gz")

\* FS::open of a regular file
Open(fs, name) == [name |-> name, version |-> fs[name]]
Size(file) == file

\* _initPath: the handler's members
NewStatic(uri, path, defaultFile, cache) ==
  [mount |-> Trimmed(uri), root |-> Trimmed(path), isDir |-> Last(WithSlash(path)) = "/",
   defaultFile |-> defaultFile, cache |-> cache,
   gzipFirst |-> FALSE, stats |-> 248, file |-> NoFile, filename |-> <<>>]

Bits(n) == Cardinality({i \in 0 .. 7 : (n \div 2 ^ i) % 2 = 1})

\* _fileExists: the form that was more frequent of late is opened first.  With no bit
\* set, or with all, the comparison says what the code's own cases say.
FileExists(h, fs, path) ==
  LET plain == IsFile(fs, path)
      gz == IsFile(fs, Gz(path))
      gzFound == gz /\ (h.gzipFirst \/ ~plain)
      stats == (2 * h.stats + IF gzFound THEN 1 ELSE 0) % 256
  IN  IF plain \/ gz
      THEN [h EXCEPT !.file = Open(fs, IF gzFound THEN Gz(path) ELSE path), !.filename = path,
                     !.stats = stats, !.gzipFirst = Bits(stats) > 4]
      ELSE [h EXCEPT !.file = NoFile]

\* _getFile: the path behind the mount point, decoded; with the default file's name if
\* it is or may be a directory
GetFile(h, fs, uri) ==
  LET rest == urlDecode(Before(SubSeq(uri, Len(h.mount) + 1, Len(uri)), "?"))
      climbs == \E i \in 1 .. Len(rest) - 1 : rest[i] = "." /\ rest[i + 1] = "."
      directory == IF rest = <<>> THEN h.isDir ELSE Last(rest) = "/"
      path == h.root \o rest
      asFile == IF directory THEN [h EXCEPT !.file = NoFile] ELSE FileExists(h, fs, path)
      below == IF path # <<>> /\ Last(path) = "/" THEN path ELSE Append(path, "/")
  IN  IF climbs THEN [h EXCEPT !.file = NoFile]
      ELSE IF asFile.file # NoFile \/ h.defaultFile = <<>> THEN asFile
      ELSE FileExists(h, fs, below \o h.defaultFile)

\* canHandle, but for the search
Mounted(h, method, uri) == method = "GET" /\ IsPrefix(h.mount, uri)

\* PsychicFileResponse as it would be without its Content-Encoding
FileResponsePlain(res, fs, dirs, path) ==
  LET name == IF ~Exists(fs, dirs, path) /\ Exists(fs, dirs, Gz(path)) THEN Gz(path) ELSE path IN
  SetContent(AddHeader(res, "Content-Disposition", path),
             IF IsFile(fs, name) THEN Open(fs, name) ELSE NoBody)

\* PsychicFileResponse: the file is looked for again, the plain form first.  What
\* exists may be a directory, and what was there may be gone: then the body is empty.
FileResponse(res, fs, dirs, path) ==
  LET packed == ~Exists(fs, dirs, path) /\ Exists(fs, dirs, Gz(path))
      name == IF packed THEN Gz(path) ELSE path
      encoded == IF packed THEN AddHeader(res, "Content-Encoding", "gzip") ELSE res
  IN  SetContent(AddHeader(encoded, "Content-Disposition", path),
                 IF IsFile(fs, name) THEN Open(fs, name) ELSE NoBody)

Validators(h, stamp, etag) ==
  (IF stamp = NoStamp THEN <<>> ELSE <<Header("Last-Modified", stamp)>>)
    \o (IF h.cache THEN <<Header("Cache-Control", "max-age"), Header("ETag", etag)>> ELSE <<>>)

\* handleRequest: 304 if the stamp or the size is the one the browser has
HandleStatic(h, req, res, fs, dirs, stamp) ==
  LET etag == Size(h.file) IN
  CASE stamp # NoStamp /\ req.ifModifiedSince = stamp -> SetCode(res, 304)
    [] ~(stamp # NoStamp /\ req.ifModifiedSince = stamp) /\ h.cache /\ req.ifNoneMatch = etag ->
         SetCode(AddHeaders(res, Validators(h, NoStamp, etag)), 304)
    [] OTHER -> AddHeaders(FileResponse(res, fs, dirs, h.filename), Validators(h, stamp, etag))

=============================================================================
