---------------------------- MODULE RemotePaths ----------------------------
(***************************************************************************)
(* The functions that take paths apart and put them together, on strings   *)
(* as sequences of characters: the numbered names of crossscp-core, the    *)
(* destination of an upload and the home directory of the SFTP backend,    *)
(* the parent lookup of the FTP adapter.  A state is a call, then what the *)
(* adapter would touch because of it.                                      *)
(***************************************************************************)
EXTENDS Naturals, Sequences, SequencesExt, Selection, Texts

CONSTANTS
  Chars,        \* characters of paths: "/", ".", "~", " " and letters
  MaxPath,      \* bound: the longest path of a call
  LocalNames,   \* names of uploaded files, as sequences of characters
  CopyNumbers,  \* bound: the numbers tried by "keep both"
  Numerals,     \* how they are written: a blank and the number in parentheses
  Home          \* the directory an SFTP or FTP login starts in

VARIABLES call, result

Strings == SeqOf(Chars, MaxPath)
S(char) == <<char>>
Slash == S("/")
Dot == S(".")
DotDot == <<".", ".">>
Blanks == {" "}
Slashes == {"/"}

\* The last of some positions, 0 if there is none.
LastOf(positions) == IF positions = {} THEN 0 ELSE Max(positions)
Kept(s, dropped) == {i \in DOMAIN s : s[i] \notin dropped}
TrimStart(s, dropped) ==
  IF Kept(s, dropped) = {} THEN <<>> ELSE SubSeq(s, Min(Kept(s, dropped)), Len(s))
TrimEnd(s, dropped) == SubSeq(s, 1, LastOf(Kept(s, dropped)))
Trim(s) == TrimEnd(TrimStart(s, Blanks), Blanks)
LastAt(s, char) == LastOf({i \in DOMAIN s : s[i] = char})
Upto(s, i) == SubSeq(s, 1, i - 1)
After(s, i) == SubSeq(s, i + 1, Len(s))
EndsWithSlash(s) == s # <<>> /\ Last(s) = "/"
IsRooted(s) == s # <<>> /\ Head(s) = "/"

\* The names on the way to a path, ".." one like the others: a place is what
\* a path says, not where ".." would lead.
Names(s) ==
  LET parts == Split(s, "/") IN Select(parts, ToSet(parts) \ {<<>>, Dot})
Place(s) == IF IsRooted(s) THEN Names(s) ELSE Names(Home) \o Names(s)

-----------------------------------------------------------------------------
(* crates/crossscp-core/src/protocol.rs *)

Number(n) == S(Numerals[n])

\* The extension is what follows the last dot, unless nothing precedes it.
NumberedName(name, n, isDirectory) ==
  LET dot == LastAt(name, ".")
  IN IF isDirectory \/ dot <= 1 THEN name \o Number(n)
     ELSE Upto(name, dot) \o Number(n) \o Dot \o After(name, dot)

numbered_conflict_path(path, n, isDirectory) ==
  LET normalized == IF path = Slash THEN path ELSE TrimEnd(path, Slashes)
      at == LastAt(normalized, "/")
  IN SubSeq(normalized, 1, at) \o NumberedName(After(normalized, at), n, isDirectory)

\* Path::file_name, which takes ".." for no name, then file_stem and extension:
\* a dot in front starts no extension either.
file_name(last) == IF last = DotDot THEN <<>> ELSE last
numbered_local_name(last, n, isDirectory) ==
  LET name == file_name(last)
      dot == LastAt(name, ".")
      stem == IF dot <= 1 THEN name ELSE Upto(name, dot)
  IN IF isDirectory \/ stem = name THEN name \o Number(n)
     ELSE stem \o Number(n) \o SubSeq(name, dot, Len(name))

-----------------------------------------------------------------------------
(* crates/crossscp-protocol-sftp/src/ssh2_backend.rs *)

remote_join(parent, child) ==
  IF parent = Slash THEN Slash \o child ELSE TrimEnd(parent, Slashes) \o Slash \o child

remote_basename(path) ==
  LET trimmed == TrimEnd(path, Slashes)
      name == After(trimmed, LastAt(trimmed, "/"))
  IN IF name = <<>> THEN S("download") ELSE name

\* Blank paths, "." and "~" are the home directory: "." if realpath fails.
normalize_remote_path(path, home) ==
  LET trimmed == Trim(path)
  IN IF trimmed \in {<<>>, Dot, S("~")} THEN home
     ELSE IF IsPrefix(<<"~", "/">>, trimmed) THEN remote_join(home, SubSeq(trimmed, 3, Len(trimmed)))
     ELSE trimmed

\* Faulty variant of resolve_upload_destination_for_type: the type of the
\* remote path is forgotten.
UploadOntoPath(localName, remotePath, localIsDirectory, remoteIsDirectory) == Trim(remotePath)

resolve_upload_destination_for_type(localName, remotePath, localIsDirectory, remoteIsDirectory) ==
  LET remote == Trim(remotePath)
      isSame == localIsDirectory /\ remote_basename(TrimEnd(remote, Slashes)) = localName
  IN IF remote \in {<<>>, Dot} THEN localName
     ELSE IF remote = Slash THEN Slash \o localName
     ELSE IF EndsWithSlash(remote)
            THEN IF isSame THEN TrimEnd(remote, Slashes) ELSE remote \o localName
     ELSE IF remoteIsDirectory /\ ~isSame THEN remote_join(remote, localName)
     ELSE remote

\* What sftp-delete starts to remove, if it does not refuse.
Refuses(path) == Trim(path) \in {<<>>, Slash}
DeleteTarget(path) ==
  LET remote == normalize_remote_path(path, Home)
  IN IF Refuses(remote) THEN <<"nothing">> ELSE <<"delete", Place(remote)>>

-----------------------------------------------------------------------------
(* crates/crossscp-protocol-ftp/src/lib.rs *)

\* The directory that remote_entry lists, and the name it looks for.
split_remote_parent(path) ==
  LET trimmed == TrimEnd(Trim(path), Slashes)
      at == LastAt(trimmed, "/")
  IN [parent |-> IF at <= 1 THEN Slash ELSE Upto(trimmed, at), name |-> After(trimmed, at)]

LookedUp(path) ==
  LET looked == split_remote_parent(path)
  IN Append(Place(looked.parent), looked.name)

-----------------------------------------------------------------------------

Calls ==
  [op : {"number"}, path : Strings, n : CopyNumbers, isDirectory : BOOLEAN]
  \cup [op : {"upload"}, path : Strings, local : LocalNames, isDirectory : BOOLEAN, onDirectory : BOOLEAN,
        home : {Home, Dot}]
  \cup [op : {"delete", "look_up"}, path : Strings]

\* The result is a sequence: empty until the call returns.
NoResult == <<>>

Init == call \in Calls /\ result = NoResult

ResultOf(c) ==
  CASE c.op = "number" -> numbered_conflict_path(c.path, c.n, c.isDirectory)
    [] c.op = "upload" ->
         resolve_upload_destination_for_type(c.local, normalize_remote_path(c.path, c.home),
                                             c.isDirectory, c.onDirectory)
    [] c.op = "delete" -> DeleteTarget(c.path)
    [] c.op = "look_up" -> LookedUp(c.path)

Return == result = NoResult /\ result' = <<ResultOf(call)>> /\ UNCHANGED call

Spec == Init /\ [][Return]_<<call, result>>

-----------------------------------------------------------------------------

Returned(op) == result # NoResult /\ call.op = op
Result == result[1]
NamesOf(s) == Names(TrimEnd(s, Slashes))
\* The path has a last name, which is not the directory itself.
HasName(s) ==
  LET trimmed == TrimEnd(s, Slashes)
  IN After(trimmed, LastAt(trimmed, "/")) \notin {<<>>, Dot}
EndsIn(s, end) == Len(end) <= Len(s) /\ After(s, Len(s) - Len(end)) = end

\* "Keep both" makes a new sibling: in the directory of the path it was asked
\* for, under another name, and another one for every number, the extension
\* of a file kept.  (numbered_conflict_path, for paths that have a name)
NumberedSibling ==
  Returned("number") /\ HasName(call.path) =>
    /\ Front(NamesOf(Result)) = Front(NamesOf(call.path))
    /\ IsRooted(Result) = IsRooted(call.path)
    /\ Last(NamesOf(Result)) # Last(NamesOf(call.path))
    /\ \A n \in CopyNumbers \ {call.n} :
         numbered_conflict_path(call.path, n, call.isDirectory) # Result
    /\ LET name == Last(NamesOf(call.path)) dot == LastAt(name, ".")
       IN dot > 1 /\ ~call.isDirectory => EndsIn(Result, SubSeq(name, dot, Len(name)))

\* Uploads and downloads number alike: the copies of one file have the same
\* names on both sides, unless the path ends in "..". The two functions share
\* no code.
AlikeHere(last) ==
  Last(NamesOf(Result)) = numbered_local_name(last, call.n, call.isDirectory)
NumberedAlike ==
  Returned("number") /\ HasName(call.path) /\ Last(NamesOf(call.path)) # DotDot =>
    AlikeHere(Last(NamesOf(call.path)))

\* Not so: for every path. Locally the name ".." is lost.
EachNumberedAlike ==
  Returned("number") /\ HasName(call.path) => AlikeHere(Last(NamesOf(call.path)))

\* Of a path of slashes only, the last name is taken to be "download".
TakenForDownload(c) ==
  /\ c.isDirectory /\ c.local = S("download")
  /\ LET remote == normalize_remote_path(c.path, c.home)
     IN Len(remote) > 1 /\ TrimEnd(remote, Slashes) = <<>>

LandsAtOrInside(c) ==
  LET path == Trim(c.path)
      at == IF path = S("~") THEN Names(Home)
            ELSE IF IsPrefix(<<"~", "/">>, path) THEN Names(Home) \o Names(SubSeq(path, 3, Len(path)))
            ELSE Place(path)
  IN /\ Place(Result) \in {at, Append(at, c.local)}
     /\ (c.onDirectory \/ EndsWithSlash(path)) /\ Place(Result) = at =>
          c.isDirectory /\ at # <<>> /\ Last(at) = c.local

\* An upload lands on the path it was given or directly inside it, inside if
\* a directory is there, or merges with the directory of the same name: never
\* a file onto a directory.  (resolve_upload_destination_for_type)
UploadLandsAtOrInside ==
  Returned("upload") /\ ~TakenForDownload(call) => LandsAtOrInside(call)

\* So it should be for a directory named "download", too.
EachUploadLandsAtOrInside ==
  Returned("upload") => LandsAtOrInside(call)

\* The FTP adapter looks for a conflict where it is going to store, for
\* absolute paths.  (split_remote_parent, remote_entry)
AbsoluteLookedUpWhereStored ==
  Returned("look_up") /\ IsRooted(Trim(call.path)) /\ HasName(Trim(call.path)) => Result = Place(Trim(call.path))

\* "Keep the destination item and skip the conflicting source file": for that
\* it must be looked up where it is, also if the path is relative.
LookedUpWhereStored ==
  Returned("look_up") /\ HasName(Trim(call.path)) => Result = Place(Trim(call.path))

\* "refusing to delete empty path or remote root": not an empty path,
EmptyPathNotDeleted ==
  Returned("delete") /\ Trim(call.path) = <<>> => Result = <<"nothing">>

\* and not the root, however it is written.
RootNotDeleted ==
  Returned("delete") => Result # <<"delete", <<>>>>
=============================================================================
