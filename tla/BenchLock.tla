------------------------------ MODULE BenchLock ------------------------------
(***************************************************************************)
(* The lock file of a benchmark series and the directories it protects     *)
(* (internal/bench/run.go, claimLock and the loop of runCmd).  Processes   *)
(* share one temporary directory; a file system call is the atomic step.   *)
(* A process that dies leaves its lock and its directory behind, and its   *)
(* number may be given to a later one.                                     *)
(***************************************************************************)
EXTENDS Naturals, FiniteSets, Absent

CONSTANTS
  Proc,       \* bench processes, each started at most once (the bound)
  PidOf       \* process -> its number, which processes may share in turn

ASSUME PidAssumption == None \notin {PidOf[p] : p \in Proc}

VARIABLES
  lock,       \* the number in jev-bench.lock, None without a file
  place,      \* process -> where it is
  keeps,      \* processes started with --keep
  sandbox,    \* processes whose latest directory jev-bench-<pid>-... exists
  kept,       \* processes with a .bench-keep in it
  doomed      \* process -> owners of the directories its sweep still visits

lockVars == <<lock, place, keeps, sandbox, kept, doomed>>

Running == {p \in Proc : place[p] \notin {"new", "over", "dead"}}

alive(pid) == pid \in {PidOf[p] : p \in Running}

LockInit ==
  /\ lock = None
  /\ place = [p \in Proc |-> "new"]
  /\ keeps \in SUBSET Proc
  /\ sandbox = {}
  /\ kept = {}
  /\ doomed = [p \in Proc |-> {}]

At(p, here) == place[p] = here
Go(p, there) == place' = [place EXCEPT ![p] = there]

Launch(p) ==
  /\ At(p, "new")
  /\ ~alive(PidOf[p])
  /\ Go(p, "reading")
  /\ UNCHANGED <<lock, keeps, sandbox, kept, doomed>>

(* claimLock refuses only for a living process other than itself.          *)
ReadLock(p) ==
  /\ At(p, "reading")
  /\ Go(p, IF lock \notin {None, PidOf[p]} /\ alive(lock) THEN "over" ELSE "writing")
  /\ UNCHANGED <<lock, keeps, sandbox, kept, doomed>>

(* os.WriteFile empties the file and then fills it.  Who reads it in       *)
(* between finds no number and goes on, as before the write when the       *)
(* number read was nobody's, so the two are one step.                      *)
WriteLock(p) ==
  /\ At(p, "writing")
  /\ lock' = PidOf[p]
  /\ Go(p, "listing")
  /\ UNCHANGED <<keeps, sandbox, kept, doomed>>

ListDirs(p) ==
  /\ At(p, "listing")
  /\ doomed' = [doomed EXCEPT ![p] = sandbox]
  /\ Go(p, "sweeping")
  /\ UNCHANGED <<lock, keeps, sandbox, kept>>

(* One entry of the listing: left alone with a .bench-keep, else removed.  *)
SweepEntry(p, q) ==
  /\ At(p, "sweeping")
  /\ q \in doomed[p]
  /\ doomed' = [doomed EXCEPT ![p] = @ \ {q}]
  /\ sandbox' = sandbox \ ({q} \ kept)
  /\ UNCHANGED <<lock, place, keeps, kept>>

Swept(p) ==
  /\ At(p, "sweeping")
  /\ doomed[p] = {}
  /\ Go(p, "ready")
  /\ UNCHANGED <<lock, keeps, sandbox, kept, doomed>>

(* MkdirTemp: a directory of a new name, without a .bench-keep as yet.     *)
MakeSandbox(p) ==
  /\ At(p, "ready")
  /\ sandbox' = sandbox \cup {p}
  /\ kept' = kept \ {p}
  /\ Go(p, IF p \in keeps THEN "marking" ELSE "running")
  /\ UNCHANGED <<lock, keeps, doomed>>

WriteKeep(p) ==
  /\ At(p, "marking")
  /\ kept' = kept \cup ({p} \cap sandbox)
  /\ Go(p, IF p \in sandbox THEN "running" ELSE "releasing")
  /\ UNCHANGED <<lock, keeps, sandbox, doomed>>

(* The run is over: its directory goes unless it is kept, and either the   *)
(* next run begins or runCmd returns.                                      *)
RunOver(p, there) ==
  /\ At(p, "running")
  /\ sandbox' = IF p \in keeps THEN sandbox ELSE sandbox \ {p}
  /\ Go(p, there)
  /\ UNCHANGED <<lock, keeps, kept, doomed>>

(* The deferred release removes the file, whoever wrote it last.           *)
Release(p) ==
  /\ At(p, "releasing")
  /\ lock' = None
  /\ Go(p, "over")
  /\ UNCHANGED <<keeps, sandbox, kept, doomed>>

Crash(p) ==
  /\ p \in Running
  /\ doomed' = [doomed EXCEPT ![p] = {}]
  /\ Go(p, "dead")
  /\ UNCHANGED <<lock, keeps, sandbox, kept>>

LockNext == \E p \in Proc :
  \/ Launch(p) \/ ReadLock(p) \/ WriteLock(p) \/ ListDirs(p)
  \/ \E q \in Proc : SweepEntry(p, q)
  \/ Swept(p) \/ MakeSandbox(p) \/ WriteKeep(p)
  \/ \E there \in {"ready", "releasing"} : RunOver(p, there)
  \/ Release(p) \/ Crash(p)

LockSpec == LockInit /\ [][LockNext]_lockVars

(* Nothing in claimLock keeps two processes from reading the file before   *)
(* either writes it.  SerialSpec has the behaviours where that never       *)
(* happens, with all other overlaps, deaths and numbers given out again.   *)
OneClaim ==
  \A p, q \in Proc :
    place[p] \in {"reading", "writing"} /\ place[q] \in {"reading", "writing"} => p = q

SerialSpec == LockInit /\ [][LockNext /\ OneClaim']_lockVars

-----------------------------------------------------------------------------
LockTypeOK ==
  /\ lock \in {PidOf[p] : p \in Proc} \cup {None}
  /\ place \in [Proc -> {"new", "reading", "writing", "listing", "sweeping", "ready",
                         "marking", "running", "releasing", "over", "dead"}]
  /\ keeps \cup sandbox \cup kept \subseteq Proc
  /\ doomed \in [Proc -> SUBSET Proc]

(* "Series must not overlap: agents can read each other's workspaces", the *)
(* error of claimLock says.  Of the processes that got past the lock and   *)
(* have not given it back one at most is alive, and the file names it, so  *)
(* that the next one finds it there.  It holds of SerialSpec.              *)
Holding(p) == place[p] \in {"listing", "sweeping", "ready", "marking", "running", "releasing"}

OneSeries ==
  \A p \in Proc : Holding(p) => lock = PidOf[p] /\ \A q \in Proc : Holding(q) => q = p

(* What claimLock's comment says of its sweep: whatever it removes is an   *)
(* orphan of a past run.  No sweep removes the directory of a run that is  *)
(* still going on.  It holds of SerialSpec.                                *)
SweepsOnlyOrphans ==
  [][\A p, q \in Proc : SweepEntry(p, q) /\ ~At(q, "over") /\ ~At(q, "dead")
       => q \in sandbox']_lockVars
=============================================================================
