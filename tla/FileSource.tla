----------------------------- MODULE FileSource -----------------------------
(* The scanner's file sources: a directory walked into targets, standard   *)
(* input, and the reader that turns one stream into fragments, a chunk at  *)
(* a time, descending into the archives it recognises.                     *)
(*                                                                         *)
(* A byte is "a" (text), "n" (a newline), "s" (other white space) or "0"   *)
(* (a NUL).  A fragment names the stretch of its file that it carries.     *)
EXTENDS Consumer, FiniteSets, SequencesExt

CONSTANTS
  Content,          \* file -> [bytes, format, magic, members, broken]
  Dirs,             \* directory -> its entries, in the order of their names
  Root,             \* the directory a scan is given
  Piped,            \* the files that can be given on standard input
  SkippedPaths,     \* the entries, as <<directory, name>>, the filter rejects
  SkippedStreams,   \* the paths of standard input, and of what is in it, it rejects
  StdinPath,        \* the path a caller gives standard input, <<>> when it gives none
  BufferSize,       \* 100 kB in the code
  PeekSize,         \* 25 kB in the code
  HeadSize,         \* the 8 kB looked at for a NUL
  MaxFileSize,      \* 0: no limit
  MaxArchiveDepth,
  FollowSymlinks,
  MaxVanished       \* bound: files removed, and reads that fail, while a scan runs

\* Directories form a tree: a link to one is not an entry of kind "dir".
ASSUME FileAssumption ==
  /\ \A f \in DOMAIN Content :
       /\ Content[f].bytes \in Seq({"a", "n", "s", "0"})
       /\ Len(Content[f].members) \in Nat
       /\ DOMAIN Content[f].members = 1..Len(Content[f].members)
       /\ \A i \in DOMAIN Content[f].members : Content[f].members[i].file \in DOMAIN Content
  /\ \A d \in DOMAIN Dirs :
       /\ Len(Dirs[d]) \in Nat /\ DOMAIN Dirs[d] = 1..Len(Dirs[d])
       /\ \A i \in DOMAIN Dirs[d] :
            Dirs[d][i].kind \in {"file", "dir", "link"}
              /\ (Dirs[d][i].kind = "file" => Dirs[d][i].to \in DOMAIN Content)
  /\ IsFiniteSet(DOMAIN Dirs)
  /\ \E depth \in [DOMAIN Dirs -> 0..Cardinality(DOMAIN Dirs)] :
       \A d \in DOMAIN Dirs : \A i \in DOMAIN Dirs[d] :
         Dirs[d][i].kind = "dir" => /\ Dirs[d][i].to \in DOMAIN Dirs
                                   /\ depth[Dirs[d][i].to] < depth[d]
  /\ Root \in DOMAIN Dirs /\ Piped \subseteq DOMAIN Content
  /\ BufferSize \in Nat \ {0} /\ PeekSize \in Nat

VARIABLES
  targets,          \* what is still to be opened
  open,             \* the files being read, innermost archive member first
  vanished,         \* files removed since the walk
  unread            \* files a read failed on

fileVars == <<targets, open, vanished, unread>>

Bytes(f) == Content[f].bytes
IsText(f) == \A i \in 1..Len(Bytes(f)) : i <= HeadSize => Bytes(f)[i] # "0"
Newlines(f, to) == Cardinality({i \in 1..to : Bytes(f)[i] = "n"})

-----------------------------------------------------------------------------
(* The walk.  A directory the filter rejects is pruned; a link is followed *)
(* to a file and never to a directory; empty and over-large files are left *)
(* out.                                                                    *)
Target(path, link, file) == [path |-> path, link |-> link, file |-> file]

Consider(dir, e) ==
  IF <<dir, e.name>> \in SkippedPaths THEN <<>>
  ELSE IF e.kind = "link"
  THEN IF FollowSymlinks /\ e.to \in DOMAIN Content THEN <<Target(e.real, TRUE, e.to)>> ELSE <<>>
  ELSE LET size == Len(Bytes(e.to))
       IN IF size = 0 \/ (MaxFileSize > 0 /\ size > MaxFileSize) THEN <<>>
          ELSE <<Target(e.name, FALSE, e.to)>>

ScanTargets[dir \in DOMAIN Dirs] ==
  FlattenSeq([i \in 1..Len(Dirs[dir]) |->
    LET e == Dirs[dir][i]
    IN IF e.kind # "dir" THEN Consider(dir, e)
       ELSE IF <<dir, e.name>> \in SkippedPaths THEN <<>> ELSE ScanTargets[e.to]])

-----------------------------------------------------------------------------
(* Archives.  The format is read off the head when enough of it is there,  *)
(* then off the name; the depth limit is asked first.                      *)
Extensions == [e \in {"zip", "jar", "tar", "gz", "tgz", "7z", "rar", "br"} |->
  CASE e \in {"zip", "jar"} -> "zip" [] e \in {"gz", "tgz"} -> "gzip"
    [] e = "br" -> "brotli" [] OTHER -> e]
Decompressors == {"gzip", "brotli"}
ExtensionOf(name) == IF Len(name) > 1 THEN name[Len(name)] ELSE ""

FromMagic(f, seen) ==
  IF Content[f].magic > 0 /\ seen >= Content[f].magic THEN Content[f].format ELSE "none"
FromExtension(name) ==
  IF ExtensionOf(name) \in DOMAIN Extensions THEN Extensions[ExtensionOf(name)] ELSE "none"
Identify(name, f, seen) ==
  IF FromMagic(f, seen) # "none" THEN FromMagic(f, seen) ELSE FromExtension(name)

\* A decompressed stream keeps its container's name without the suffix.
StripCompressionSuffix(name) ==
  CASE ExtensionOf(name) \in {"gz", "br"} -> Front(name)
    [] ExtensionOf(name) = "tgz" -> Append(Front(name), "tar")
    [] OTHER -> name

\* Which of its members an archive gives up.
ExtractZip(ms) == {i \in 1..Len(ms) : ms[i].kind = "file" /\ ms[i].safe /\ ms[i].readable}
ExtractTar(ms) == {i \in 1..Len(ms) : ms[i].kind = "file" /\ ms[i].readable}
Extract7z(ms) ==
  IF \E i \in 1..Len(ms) : ms[i].kind = "file" /\ ~ms[i].readable THEN {}
  ELSE {i \in 1..Len(ms) : ms[i].kind = "file"}
ExtractRar(ms) == {i \in 1..Len(ms) : ms[i].kind = "file" /\ \A j \in 1..i : ms[j].readable}
Kept(ms, which) == FlattenSeq([i \in 1..Len(ms) |-> IF i \in which THEN <<ms[i]>> ELSE <<>>])
\* What a file recognised as `format` holds: nothing when it is not one, or damaged.
Extract(format, f) ==
  LET ms == Content[f].members
  IN Kept(ms, CASE Content[f].broken \/ Content[f].format # format -> {}
                [] format = "zip" -> ExtractZip(ms)
                [] format = "tar" -> ExtractTar(ms)
                [] format = "7z" -> Extract7z(ms)
                [] format = "rar" -> ExtractRar(ms)
                [] OTHER -> {1})

File(path, f, depth, outer, link) ==
  [path |-> path, file |-> f, depth |-> depth, outer |-> outer, link |-> link,
   at |-> 0, first |-> TRUE, lines |-> 0]
FullPath(o) == Append(o.outer, o.path)

\* The members of an archive, each to be read as a file of its own.
ArchiveFragments(o, format) ==
  LET es == Extract(format, o.file)
  IN [i \in 1..Len(es) |->
       File(IF format \in Decompressors THEN StripCompressionSuffix(o.path) ELSE es[i].path,
            es[i].file, o.depth + 1, Append(o.outer, o.path), o.link)]

-----------------------------------------------------------------------------
(* Chunks.  A read of n bytes after position s is grown until it ends in a *)
(* blank line, has grown by PeekSize, or the file ends.                    *)
Blank(b) == b \in {"n", "s"}
\* The newlines in the white space that ends at `hi`, looked for back to `lo`.
TrailingNewlines(b, lo, hi) ==
  Cardinality({i \in lo..hi : b[i] = "n" /\ \A j \in i..hi : Blank(b[j])})

\* Mutant: the hunt for a boundary gives up where the read ended.
BoundaryAtRead(b, s, n) == s + n

ReadUntilSafeBoundary(b, s, n) ==
  IF TrailingNewlines(b, s + 1, s + n) >= 2 THEN s + n
  ELSE CHOOSE e \in (s + n)..Len(b) :
         LET Stops(i) == TrailingNewlines(b, s + n, i) >= 2 \/ i - (s + n) >= PeekSize \/ i = Len(b)
         IN Stops(e) /\ \A i \in (s + n)..(e - 1) : ~Stops(i)

\* What the caller of Stdin says of it replaces what the reader says.
PathAttr(o) == IF FullPath(o)[1] = <<"stdin">> /\ StdinPath # <<>> THEN <<StdinPath>> ELSE FullPath(o)
FileFragment(o, e) ==
  [path |-> PathAttr(o), link |-> o.link, file |-> o.file, from |-> o.at + 1, to |-> e,
   start |-> o.lines + 1]

\* Files asks its filter before it opens a file, Stdin for every fragment.
SkipsFragment(o) == FullPath(o)[1] = <<"stdin">> /\ PathAttr(o) \in SkippedStreams

-----------------------------------------------------------------------------
FileInit == targets = <<>> /\ open = <<>> /\ vanished = {} /\ unread = {}

ScansFiles == Begins("files") /\ targets' = ScanTargets[Root] /\ UNCHANGED <<open, vanished, unread>>
ScansStdin ==
  /\ Begins("stdin")
  /\ \E f \in Piped : open' = <<File(<<"stdin">>, f, 0, <<>>, FALSE)>>
  /\ UNCHANGED <<targets, vanished, unread>>
Reading == source \in {"files", "stdin"} /\ result = "running"

\* A file that cannot be opened is passed over.
OpensTarget ==
  /\ Reading /\ open = <<>> /\ targets # <<>>
  /\ targets' = Tail(targets)
  /\ LET t == Head(targets)
     IN open' = IF t.file \in vanished THEN <<>> ELSE <<File(t.path, t.file, 0, <<>>, t.link)>>
  /\ UNCHANGED <<vanished, unread, consumerVars>>

\* One read: of as much as there is from a file, of what has arrived from a pipe.
Reads(o) ==
  LET left == Len(Bytes(o.file)) - o.at
      most == IF left < BufferSize THEN left ELSE BufferSize
  IN IF o.path = <<"stdin">> /\ most > 0 THEN 1..most ELSE {most}

Descends(o, n) ==
  n > 0 /\ o.first /\ o.depth < MaxArchiveDepth /\ Identify(o.path, o.file, n) # "none"
\* At the end of the file and at a binary head the reader is done with it.
Closes(o, n) == n = 0 \/ (o.first /\ \E i \in 1..n : i <= HeadSize /\ Bytes(o.file)[i] = "0")
\* The chunk up to `e` is handed on.
HandsOn(o, e) ==
  /\ open' = <<[o EXCEPT !.at = e, !.first = FALSE, !.lines = Newlines(o.file, e)]>> \o Tail(open)
  /\ IF SkipsFragment(o) THEN UNCHANGED consumerVars ELSE Yields(FileFragment(o, e))

ReadChunk ==
  /\ Reading /\ open # <<>>
  /\ \E n \in Reads(Head(open)) :
       LET o == Head(open)
       IN \/ /\ Descends(o, n)
             /\ open' = ArchiveFragments(o, Identify(o.path, o.file, n)) \o Tail(open)
             /\ UNCHANGED consumerVars
          \/ /\ ~Descends(o, n) /\ Closes(o, n)
             /\ open' = Tail(open) /\ UNCHANGED consumerVars
          \/ /\ ~Descends(o, n) /\ ~Closes(o, n)
             /\ HandsOn(o, ReadUntilSafeBoundary(Bytes(o.file), o.at, n))
  /\ UNCHANGED <<targets, vanished, unread>>

\* A read of a file or a pipe fails; what is in an archive is in memory.  The
\* error is the consumer's, which may go on with the next file; in the hunt for
\* a boundary it goes unsaid, and cuts the chunk where it is.
ReadFails ==
  /\ Reading /\ open # <<>> /\ Head(open).depth = 0
  /\ Head(open).file \notin unread /\ Cardinality(vanished \cup unread) < MaxVanished
  /\ unread' = unread \cup {Head(open).file}
  /\ \/ open' = Tail(open) /\ (UNCHANGED consumerVars \/ Ends("error"))
     \/ \E n \in Reads(Head(open)) :
          LET o == Head(open)
          IN /\ ~Descends(o, n) /\ ~Closes(o, n)
             /\ \E e \in (o.at + n)..ReadUntilSafeBoundary(Bytes(o.file), o.at, n) : HandsOn(o, e)
  /\ UNCHANGED <<targets, vanished>>

FilesEnd == Reading /\ open = <<>> /\ targets = <<>> /\ Ends("ok") /\ UNCHANGED fileVars

Vanishes ==
  /\ Running("files") /\ Cardinality(vanished \cup unread) < MaxVanished
  /\ \E i \in 1..Len(targets) : vanished' = vanished \cup {targets[i].file}
  /\ UNCHANGED <<targets, open, unread, consumerVars>>
=============================================================================
