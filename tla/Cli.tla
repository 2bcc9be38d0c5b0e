-------------------------------- MODULE Cli --------------------------------
(***************************************************************************)
(* main of steamdepot-cli: the composition of the other modules on one     *)
(* connection and one install directory.  Every call it awaits is one step *)
(* that succeeds or fails; what happens inside is in CmSession, CmCalls,   *)
(* PrepareDownload, ManifestFetch, ManifestNames, InstallTree and          *)
(* DepotDownload.  Depots of one app may list the same path, one of them   *)
(* as a file and another as a symbolic link.                               *)
(***************************************************************************)
EXTENDS Naturals, Sequences, SequencesExt

CONSTANTS
  Options, \* command lines: sets of the options given
  Depots,
  Files,   \* the regular files the manifest of a depot lists
  Links    \* the symbolic links it lists: functions from paths to targets

Paths == UNION {Files[d] \cup DOMAIN Links[d] \cup {Links[d][p] : p \in DOMAIN Links[d]} : d \in Depots}

VARIABLES
  options,
  pc,       \* the call under way, "done" after main returned
  plan,     \* the depots of the plan, in order
  cursor,   \* the depot of the loop
  session,  \* "none", "on", "off" (logged off), "dropped"
  out,      \* the lines on stdout, as <<type, depot>>; depot 0 for none
  exit,     \* "none", "ok", "error"
  link,     \* where the link at a path leads; the path itself where there is none
  disk      \* per path: "absent", "zeros", "torn", or the depot whose bytes it holds

vars == <<options, pc, plan, cursor, session, out, exit, link, disk>>

AllOptions == {"username", "token", "info", "key", "download", "manifests", "install"}

Lines == {"cm_servers", "connecting", "login", "info", "depot_key", "error", "plan_start",
          "plan", "plan_empty", "cdn_servers", "manifest", "prepare", "prepared",
          "complete", "disconnected"}

\* A plan is of finitely many depots; any set of command lines will do.  A
\* manifest lists a path once, and no link leads to a link.
CliAssumption ==
  /\ IsFiniteSet(Depots) /\ Options \subseteq SUBSET AllOptions
  /\ \A d, e \in Depots : \A p \in DOMAIN Links[d] :
       p \notin Files[d] /\ Links[d][p] \notin DOMAIN Links[e]

\* Where a file created at this path may end up: a link that a depot has left
\* there is followed.
Leads(p) == {p} \cup {Links[d][p] : d \in {e \in Depots : p \in DOMAIN Links[e]}}

Contents == Depots \cup {"absent", "zeros", "torn"}

\* The calls that need a session are made between login and shutdown, the
\* session is logged off exactly when main shuts it down, and every value has
\* its type.
TypeOK ==
  /\ options \subseteq AllOptions
  /\ pc \in {"list", "connect", "login", "info", "key", "plan", "manifests", "decrypt",
             "tree", "chunks", "shutdown", "done"}
  /\ IsInjective(plan) /\ \A i \in DOMAIN plan : plan[i] \in Depots
  /\ cursor \in 0..Len(plan)
  /\ session \in {"none", "on", "off", "dropped"}
  /\ \A i \in DOMAIN out : out[i] \in Lines \X (Depots \cup {0})
  /\ exit \in {"none", "ok", "error"}
  /\ link \in [Paths -> Paths] /\ \A p \in Paths : link[p] \in Leads(p)
  /\ disk \in [Paths -> Contents]
  \* the calls of a session are made between login and shutdown
  /\ pc \in {"info", "key", "plan", "manifests", "decrypt", "tree", "chunks", "shutdown"}
       <=> session = "on"
  /\ (exit = "none") <=> (pc # "done")
  /\ (exit = "ok") <=> (session = "off")

Init ==
  /\ options \in Options
  /\ pc = "list" /\ plan = <<>> /\ cursor = 0
  /\ session = "none" /\ out = <<>> /\ exit = "none"
  /\ link = [p \in Paths |-> p]
  /\ disk = [p \in Paths |-> "absent"]

depot == plan[cursor]
Say(type) == out' = Append(out, <<type, 0>>)
SayOf(d, types) == out' = out \o [i \in DOMAIN types |-> <<types[i], d>>]

\* the optional sections of main, in their order
AfterKey == IF "download" \in options THEN "plan" ELSE "shutdown"
AfterInfo == IF "key" \in options THEN "key" ELSE AfterKey
AfterLogin == IF "info" \in options THEN "info" ELSE AfterInfo

GetCmList ==
  /\ pc = "list"
  /\ out' = <<<<"cm_servers", 0>>, <<"connecting", 0>>>>
  /\ pc' = "connect"
  /\ UNCHANGED <<options, plan, cursor, session, exit, link, disk>>

Connect ==
  /\ pc = "connect" /\ pc' = "login"
  /\ UNCHANGED <<options, plan, cursor, session, out, exit, link, disk>>

\* a name without a token, or a token without a name, is refused only now
Login ==
  /\ pc = "login"
  /\ ("username" \in options) <=> ("token" \in options)
  /\ session' = "on"
  /\ Say("login")
  /\ pc' = AfterLogin \* start_heartbeat cannot fail
  /\ UNCHANGED <<options, plan, cursor, exit, link, disk>>

ProductInfo ==
  /\ pc = "info"
  /\ Say("info") \/ UNCHANGED out \* one line stands for those of all apps and packages
  /\ pc' = AfterInfo
  /\ UNCHANGED <<options, plan, cursor, session, exit, link, disk>>

\* main reports the error of this call and goes on
DepotKey ==
  /\ pc = "key"
  /\ Say("depot_key") \/ Say("error")
  /\ pc' = AfterKey
  /\ UNCHANGED <<options, plan, cursor, session, exit, link, disk>>

PrepareDownload(depots) ==
  /\ pc = "plan"
  /\ plan' = depots
  /\ SayOf(0, <<"plan_start", IF depots = <<>> THEN "plan_empty" ELSE "plan">>)
  /\ pc' = IF "manifests" \in options /\ depots # <<>> THEN "manifests" ELSE "shutdown"
  /\ UNCHANGED <<options, cursor, session, exit, link, disk>>

\* Ok means that every depot of the plan has its manifest (ManifestFetch)
FetchManifests ==
  /\ pc = "manifests"
  /\ Say("cdn_servers")
  /\ pc' = "decrypt" /\ cursor' = 1
  /\ UNCHANGED <<options, plan, session, exit, link, disk>>

NextDepot ==
  IF cursor < Len(plan) THEN pc' = "decrypt" /\ cursor' = cursor + 1
                        ELSE pc' = "shutdown" /\ UNCHANGED cursor

DecryptNames ==
  /\ pc = "decrypt"
  /\ IF "install" \in options
       THEN /\ SayOf(depot, <<"manifest", "prepare">>)
            /\ pc' = "tree" /\ UNCHANGED cursor
       ELSE SayOf(depot, <<"manifest">>) /\ NextDepot
  /\ UNCHANGED <<options, plan, session, exit, link, disk>>

\* Where the files of this depot are: File::create and open follow a link.
Places == {link[f] : f \in Files[depot]}
ListedLinks == DOMAIN Links[depot]

\* File::create empties a file that an earlier depot of the plan filled, under
\* its own path or at the end of a link; a listed link takes the place of what
\* was there.
PrepareTree ==
  /\ pc = "tree"
  /\ link' = [p \in Paths |-> IF p \in ListedLinks THEN Links[depot][p] ELSE link[p]]
  /\ disk' = [p \in Paths |-> IF p \in Places THEN "zeros"
                              ELSE IF p \in ListedLinks THEN "absent" ELSE disk[p]]
  /\ SayOf(depot, <<"prepared">>)
  /\ pc' = "chunks"
  /\ UNCHANGED <<options, plan, cursor, session, exit>>

\* the chunks of this depot written; those of two files may go to one place
Downloaded ==
  [p \in Paths |->
     IF p \notin Places THEN disk[p]
     ELSE IF \E f, g \in Files[depot] : f # g /\ link[f] = p /\ link[g] = p THEN "torn"
     ELSE depot]

\* Slip: an error of the download is logged like that of the key.
DownloadAnyway ==
  /\ pc = "chunks"
  /\ \/ disk' = Downloaded /\ SayOf(depot, <<"complete">>)
     \/ SayOf(depot, <<"error">>) /\ UNCHANGED disk
  /\ NextDepot
  /\ UNCHANGED <<options, plan, session, exit, link>>

\* a new pool, seeded with the kept tokens, for every depot; Ok means that all
\* regions hold their chunks (DepotDownload)
DownloadDepot ==
  /\ pc = "chunks"
  /\ disk' = Downloaded
  /\ SayOf(depot, <<"complete">>)
  /\ NextDepot
  /\ UNCHANGED <<options, plan, session, exit, link>>

Shutdown ==
  /\ pc = "shutdown"
  /\ session' = "off"
  /\ Say("disconnected")
  /\ pc' = "done" /\ exit' = "ok"
  /\ UNCHANGED <<options, plan, cursor, link, disk>>

\* what a tree or a download that fails may have done to links and files before
LeftLinks(p) ==
  IF pc = "tree" /\ p \in ListedLinks THEN {link[p], p, Links[depot][p]} ELSE {link[p]}

Leftovers(p) ==
  CASE pc = "tree" /\ p \in ListedLinks -> IF link'[p] = p THEN {disk[p], "absent"} ELSE {"absent"}
    [] pc = "tree" /\ p \in Places -> {disk[p], "zeros"}
    [] pc = "chunks" /\ p \in Places -> {"zeros", "torn", depot}
    [] OTHER -> {disk[p]}

\* the lines main has written when the call that fails is made: none or the
\* count of a list without WebSocket servers, the start of a plan
SaidBefore ==
  CASE pc = "list" -> {<<>>, <<<<"cm_servers", 0>>>>}
    [] pc = "plan" -> {<<<<"plan_start", 0>>>>}
    [] OTHER -> {<<>>}

\* every error but that of the key leaves main through ?: the connection is
\* dropped without a logoff and the runtime prints the error to stderr
QuestionMark ==
  /\ pc \notin {"key", "done"}
  /\ link' \in {l \in [Paths -> Paths] : \A p \in Paths : l[p] \in LeftLinks(p)}
  /\ disk' \in {d \in [Paths -> Contents] : \A p \in Paths : d[p] \in Leftovers(p)}
  /\ \E said \in SaidBefore : out' = out \o said
  /\ session' = IF session = "on" THEN "dropped" ELSE session
  /\ pc' = "done" /\ exit' = "error"
  /\ UNCHANGED <<options, plan, cursor>>

Done == pc = "done" /\ UNCHANGED vars

Next ==
  \/ GetCmList \/ Connect \/ Login \/ ProductInfo \/ DepotKey
  \/ \E depots \in SetToAllKPermutations(Depots) : PrepareDownload(depots)
  \/ FetchManifests \/ DecryptNames \/ PrepareTree \/ DownloadDepot
  \/ Shutdown \/ QuestionMark \/ Done

Spec == Init /\ [][Next]_vars

-----------------------------------------------------------------------------
Said(type, d) == <<type, d>> \in ToSet(out)

\* What preparing a depot may replace or empty.
Touched(d) == DOMAIN Links[d] \cup UNION {Leads(f) : f \in Files[d]}

\* No other file of the depot may end up where this one does.
Alone(d, p) == \A f \in Files[d] \ {p} : Leads(f) \cap Leads(p) = {}

\* After the line "complete" of a depot its files hold its bytes, until a later
\* depot of the plan is prepared that lists the same path or may reach it
\* through a link: the depots are finished one by one in one directory.  Two
\* files of one depot that a link of another may bring together are excepted.
CompleteHolds ==
  \A i \in DOMAIN plan : Said("complete", plan[i]) =>
    \A p \in Files[plan[i]] : Alone(plan[i], p) =>
      \/ disk[link[p]] = plan[i]
      \/ \E j \in i + 1..Len(plan) :
           Leads(p) \cap Touched(plan[j]) # {} /\ Said("prepare", plan[j])

\* When an installation exits with success, every depot of its plan is complete,
\* every file that no later depot reaches holds its bytes, and every link that
\* no later depot lists is the depot's own.
OkIsWhole ==
  exit = "ok" /\ {"download", "manifests", "install"} \subseteq options =>
    \A i \in DOMAIN plan :
      /\ Said("complete", plan[i])
      /\ \A p \in Files[plan[i]] :
           Alone(plan[i], p) /\ (\A j \in i + 1..Len(plan) : Leads(p) \cap Touched(plan[j]) = {})
             => disk[link[p]] = plan[i]
      /\ \A p \in DOMAIN Links[plan[i]] :
           (\A j \in i + 1..Len(plan) : p \notin DOMAIN Links[plan[j]])
             => link[p] = Links[plan[i]][p]

\* What the user may conclude from the output and the exit code.
OutputInv == TypeOK /\ CompleteHolds /\ OkIsWhole

=============================================================================
