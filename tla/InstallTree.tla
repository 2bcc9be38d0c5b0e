----------------------------- MODULE InstallTree -----------------------------
(***************************************************************************)
(* The install directory under prepare_directory_tree and the chunk writes *)
(* of download_depot (steamdepot/src/download.rs).  A run installs one     *)
(* version; it may be cut off anywhere, by the end of the process or by a  *)
(* failed fetch, and a later run, of any version, starts on the tree it    *)
(* left.  Within one process the blocking writes of a run that failed are  *)
(* not stopped: they land when they like, under a later run too.           *)
(*                                                                         *)
(* A file's data is a sequence of blocks, one chunk each, that hold zeros, *)
(* a version's data, or what a write of an earlier run has put there; a    *)
(* write that stops half way is DepotDownload's subject.  Symbolic links   *)
(* to directories, and links to links, are left out.                       *)
(***************************************************************************)
EXTENDS Naturals, Sequences

CONSTANTS
  Paths,      \* the paths, in the order of their names
  Above,      \* the directories above each path
  Versions,   \* the manifests: from paths to mappings
  Stray,      \* what a late write of an earlier run leaves in a block
  MaxRuns     \* bound: runs of the installer

Path == {Paths[i] : i \in DOMAIN Paths}

NoMapping == [kind |-> "none"]
Mapping ==
  {NoMapping} \cup [kind : {"dir"}] \cup [kind : {"link"}, to : Path \cup {""}]
              \cup [kind : {"file"}, size : Nat, exec : BOOLEAN]

KindIn(v, p) == Versions[v][p].kind
IsFile(v, p) == KindIn(v, p) = "file"

\* A path occurs once, and what links point to is a file where it is mapped.
InstallAssumption ==
  /\ Paths \in Seq(Path) /\ "" \notin Path
  /\ \A i, j \in DOMAIN Paths : Paths[i] = Paths[j] => i = j
  /\ Above \in [Path -> SUBSET Path] /\ \A p \in Path : p \notin Above[p]
  /\ \A v \in DOMAIN Versions : Versions[v] \in [Path -> Mapping]
  /\ \A v, w \in DOMAIN Versions, p \in Path :
       KindIn(v, p) = "link" /\ Versions[v][p].to # "" =>
         KindIn(w, Versions[v][p].to) \in {"none", "file"}
  /\ 0 \notin DOMAIN Versions /\ Stray \notin {0} \cup DOMAIN Versions
  /\ MaxRuns \in Nat

\* Versions that agree on what is a directory, a file or a link, and whose
\* links have a target.
Agree(vs) ==
  \A v, w \in vs, p \in Path :
    /\ KindIn(v, p) = KindIn(w, p) \/ "none" \in {KindIn(v, p), KindIn(w, p)}
    /\ KindIn(v, p) # "none" => \A d \in Above[p] : KindIn(w, d) \in {"none", "dir"}
    /\ KindIn(v, p) = "link" => Versions[v][p].to # ""

VARIABLES
  tree,       \* what is at each path of the disk
  version,    \* the version this run installs
  step,       \* where the run is
  pos,        \* position in Paths of the mapping being prepared
  pending,    \* chunk jobs of this run not yet written; once it has returned
              \* an error, those whose blocking write goes on
  late,       \* blocking writes of earlier runs of this process
  runs

vars == <<tree, version, step, pos, pending, late, runs>>

Zero == 0
Nothing == [kind |-> "none"]
Dir == [kind |-> "dir"]
Link(target) == [kind |-> "link", to |-> target]
File(data, exec) == [kind |-> "file", data |-> data, exec |-> exec]

Block == {Zero, Stray} \cup DOMAIN Versions
Entry ==
  {Nothing, Dir} \cup [kind : {"link"}, to : Path]
                 \cup [kind : {"file"}, data : Seq(Block), exec : BOOLEAN]

\* download_depot flattens the mappings into jobs, one for each block.
Jobs(v) == UNION {{[path |-> p, at |-> i] : i \in 1..Versions[v][p].size} : p \in {q \in Path : IsFile(v, q)}}

TypeOK ==
  /\ tree \in [Path -> Entry]
  /\ version \in {Zero} \cup DOMAIN Versions
  /\ step \in {"idle", "mapping", "symlink", "set_len", "chmod", "writing", "done",
               "aborted", "failed"}
  /\ pos \in 1..Len(Paths) + 1
  /\ pending # {} => step \in {"writing", "aborted", "failed"} /\ pending \subseteq Jobs(version)
  /\ \A w \in late : w.version \in DOMAIN Versions /\ w.job \in Jobs(w.version)
  /\ runs \in 0..MaxRuns

(***************************************************************************)
(* The file system.                                                        *)
(***************************************************************************)
Resolve(p) == IF tree[p].kind = "link" THEN tree[p].to ELSE p

\* create_dir_all of these directories succeeds, and the tree after it
Creatable(ds) == \A d \in ds : tree[d].kind \in {"none", "dir"}
WithDirs(ds) == [p \in Path |-> IF p \in ds THEN Dir ELSE tree[p]]

\* the sequence d, cut or filled with zeros to n blocks
Resized(d, n) == [i \in 1..n |-> IF i <= Len(d) THEN d[i] ELSE Zero]

WithData(q, data) == [tree EXCEPT ![q].data = data]

(***************************************************************************)
(* A run.                                                                  *)
(***************************************************************************)
Init ==
  /\ tree = [p \in Path |-> Nothing]
  /\ version = Zero
  /\ step = "idle"
  /\ pos = 1
  /\ pending = {}
  /\ late = {}
  /\ runs = 0

Begin(v) ==
  /\ step \in {"idle", "done", "aborted", "failed"} /\ runs < MaxRuns
  /\ version' = v
  /\ step' = "mapping"
  /\ pos' = 1
  /\ pending' = {}
  /\ late' = late \cup {[version |-> version, job |-> j] : j \in pending}
  /\ runs' = runs + 1
  /\ UNCHANGED tree

here == Paths[pos]
mapping == Versions[version][here]

To(s) == step' = s /\ UNCHANGED <<version, pos, pending, late, runs>>
Advance == /\ step' = "mapping" /\ pos' = pos + 1
           /\ UNCHANGED <<version, pending, late, runs>>
Fail == To("failed") /\ UNCHANGED tree

AtMapping(kind) == step = "mapping" /\ pos <= Len(Paths) /\ mapping.kind = kind

SkipUnnamed == AtMapping("none") /\ Advance /\ UNCHANGED tree

MakeDir ==
  /\ AtMapping("dir")
  /\ IF Creatable(Above[here] \cup {here})
     THEN tree' = WithDirs(Above[here] \cup {here}) /\ Advance
     ELSE Fail

\* the directories above a link, and remove_file, whose error is ignored
RemoveOld ==
  /\ AtMapping("link")
  /\ IF mapping.to # "" /\ Creatable(Above[here])
     THEN /\ tree' = [p \in Path |->
                        IF p = here /\ tree[p].kind # "dir" THEN Nothing ELSE WithDirs(Above[here])[p]]
          /\ To("symlink")
     ELSE Fail

Symlink ==
  /\ step = "symlink"
  /\ IF tree[here] = Nothing
     THEN tree' = [tree EXCEPT ![here] = Link(mapping.to)] /\ Advance
     ELSE Fail

\* Slip: a file is opened as it is.
OpenFile ==
  /\ AtMapping("file")
  /\ tree' = [p \in Path |-> IF p = here /\ tree[p] = Nothing THEN File(<<>>, FALSE)
                             ELSE WithDirs(Above[here])[p]]
  /\ To("set_len")

\* Slip: an existing file is not touched.
KeepExisting ==
  /\ AtMapping("file")
  /\ IF tree[here] = Nothing
     THEN tree' = [WithDirs(Above[here]) EXCEPT ![here] = File(<<>>, FALSE)] /\ To("set_len")
     ELSE UNCHANGED tree /\ To("chmod")

\* File::create: truncates what is there, through a link, and keeps its mode
CreateFile ==
  /\ AtMapping("file")
  /\ LET q == Resolve(here)
         old == tree[q]
         dirs == Above[here] \ {q}
     IN IF /\ Creatable(Above[here])
           /\ old.kind # "dir"
           /\ q # here => \A d \in Above[q] : tree[d].kind = "dir"
        THEN /\ tree' = [WithDirs(dirs) EXCEPT
                          ![q] = File(<<>>, IF old.kind = "file" THEN old.exec ELSE FALSE)]
             /\ To("set_len")
        ELSE Fail

SetLen ==
  /\ step = "set_len"
  /\ LET q == Resolve(here) IN tree' = WithData(q, Resized(tree[q].data, mapping.size))
  /\ IF mapping.exec THEN To("chmod") ELSE Advance

\* set_permissions, for mappings with the executable flag
Chmod ==
  /\ step = "chmod"
  /\ tree' = [tree EXCEPT ![Resolve(here)].exec = @ \/ mapping.exec]
  /\ Advance

Flatten ==
  /\ step = "mapping" /\ pos = Len(Paths) + 1
  /\ step' = "writing"
  /\ pending' = Jobs(version)
  /\ UNCHANGED <<tree, version, pos, late, runs>>

\* the blocks of a file when b is written to one of them
Written(d, at, b) ==
  [Resized(d, IF at > Len(d) THEN at ELSE Len(d)) EXCEPT ![at] = b]

\* The chunks land in any order, also after the call has failed; a file is
\* opened for writing, not created.  An error ends the call, and others of the
\* writes may go on.
WriteChunk(j) ==
  /\ step \in {"writing", "aborted", "failed"} /\ j \in pending
  /\ LET q == Resolve(j.path)
     IN IF tree[q].kind = "file"
        THEN /\ tree' = WithData(q, Written(tree[q].data, j.at, version))
             /\ pending' = pending \ {j}
             /\ UNCHANGED step
        ELSE /\ IF step = "writing" THEN step' = "failed" /\ pending' \in SUBSET (pending \ {j})
                                    ELSE pending' = pending \ {j} /\ UNCHANGED step
             /\ UNCHANGED tree
  /\ UNCHANGED <<version, pos, late, runs>>

\* A fetch fails and the tasks are aborted: the call returns an error, while
\* the writes already handed to a blocking thread go on.
Abort ==
  /\ step = "writing"
  /\ step' = "aborted"
  /\ pending' \in SUBSET pending
  /\ UNCHANGED <<tree, version, pos, late, runs>>

\* The files a late write may have open: the one at its path, or one that a
\* link has led to from there.
Ends(p) == {p} \cup {Versions[v][p].to : v \in {w \in DOMAIN Versions : KindIn(w, p) = "link"}}

\* A write of an earlier run lands.  The block is stray, unless the write is of
\* the version being installed, to its own file, which holds nothing of another.
LateWrite(w) ==
  /\ late' = late \ {w}
  /\ \E q \in Ends(w.job.path) \cap Path :
       IF tree[q].kind = "file"
       THEN LET d == tree[q].data
                own == /\ w.version = version /\ q = w.job.path
                       /\ \A i \in 1..Len(d) : d[i] \in {Zero, Stray, version}
            IN tree' = WithData(q, Written(d, w.job.at, IF own THEN version ELSE Stray))
       ELSE UNCHANGED tree
  /\ UNCHANGED <<version, step, pos, pending, runs>>

Finish ==
  /\ step = "writing" /\ pending = {}
  /\ To("done") /\ UNCHANGED tree

\* The process ends, and its writes with it.
CutOff ==
  /\ step # "idle"
  /\ step' = "idle"
  /\ pending' = {} /\ late' = {}
  /\ UNCHANGED <<tree, version, pos, runs>>

Prepare ==
  SkipUnnamed \/ MakeDir \/ RemoveOld \/ Symlink \/ CreateFile \/ SetLen \/ Chmod

Next ==
  \/ \E v \in DOMAIN Versions : Begin(v)
  \/ Prepare
  \/ Flatten
  \/ \E j \in pending : WriteChunk(j)
  \/ \E w \in late : LateWrite(w)
  \/ Finish
  \/ Abort
  \/ CutOff

Spec == Init /\ [][Next]_vars

-----------------------------------------------------------------------------

\* The file of p has its size and, where no job is left, the version's blocks:
\* all but those that a late write of an earlier run has taken, and nothing is
\* longer but by such a write.
Complete(p) ==
  LET d == tree[p].data
      m == Versions[version][p]
  IN /\ Len(d) >= m.size
     /\ \A i \in 1..m.size : [path |-> p, at |-> i] \notin pending => d[i] \in {version, Stray}
     /\ Len(d) > m.size => d[Len(d)] = Stray

\* A finished run has installed its version, whatever earlier runs left behind:
\* directories, links, and files of their own with their size and all their
\* chunks.  Only a blocking write that an earlier run of the same process has
\* left outstanding can take a block of it, if it was of another version.
Installed ==
  step = "done" =>
    \A p \in Path : LET m == Versions[version][p] IN
      CASE m.kind = "none" -> TRUE
        [] m.kind = "dir" -> tree[p] = Dir
        [] m.kind = "link" -> tree[p] = Link(m.to)
        [] m.kind = "file" -> tree[p].kind = "file" /\ Complete(p) /\ (m.exec => tree[p].exec)

\* No file ever holds blocks of two versions, at no moment of a run and not
\* after one is cut off or fails: beside one version's blocks there are only
\* zeros and, within one process, what a write of an earlier run has put there
\* after that run had returned its error.
NoMix ==
  \A p \in Path : tree[p].kind = "file" =>
    \E v \in Block : \A i \in DOMAIN tree[p].data : tree[p].data[i] \in {Zero, Stray, v}

\* A tree that earlier runs left, and writes of theirs that land meanwhile,
\* never make a later run fail (for versions that Agree).
RerunSucceeds == step # "failed"

\* What runs over versions that agree on kinds come to: none fails but by a
\* fetch, and each that finishes has installed its version.
TreeInv == TypeOK /\ Installed /\ RerunSucceeds

\* "Create the directory tree and pre-allocate files at their final sizes":
\* when the chunks are about to be written, every file of the version has
\* its size.
PreparedSizes ==
  (step = "writing" /\ pending = Jobs(version)) =>
    \A p \in Path : IsFile(version, p) =>
      LET f == tree[Resolve(p)] IN f.kind = "file" /\ Len(f.data) = Versions[version][p].size

=============================================================================
