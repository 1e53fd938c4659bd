--------------------------- MODULE MonitorLibrary ---------------------------
(***************************************************************************)
(* micromonitor/diagnostics/monlib.c: the functions through which the      *)
(* tasks of an application call the boot monitor.  Each wrapper mon_f      *)
(* takes the application's lock, calls the monitor's f through a pointer   *)
(* that monConnect has fetched, and gives the lock back.                   *)
(*                                                                         *)
(* The command line task may run monitor commands (mon_docommand).  The    *)
(* command "call" makes the monitor, which then holds the lock, call back  *)
(* into the application: DisableMonLock and EnableMonLock are the back     *)
(* door for functions called in this way that use the monitor themselves.  *)
(*                                                                         *)
(* The lock is the application's: a semaphore, with a count and no owner.  *)
(*                                                                         *)
(* Each read and each write of the library's variables is a step, for it   *)
(* protects none of them.  Where the source reads a variable twice in a    *)
(* row (the test of a switch and the -- under it, the test of a pointer    *)
(* and the call through it), the compiler may keep what was read first or  *)
(* read again: both are modelled.                                          *)
(***************************************************************************)
EXTENDS Integers, Sequences, FiniteSets

CONSTANTS
  Tasks,       \* the tasks of the application that use the library
  Cli,         \* the one of them that runs monitor commands
  Called,      \* the functions they call
  Refusable,   \* the functions that an old monitor may not have
  MaxAhead     \* a bound on how many times more a task takes the lock than it gives
               \* it back, or the reverse; correct use needs 1 and 0

\* The requests of monlib.h.
GetMonFunc ==
  {"putchar", "getchar", "gotachar", "getbytes", "printf", "cprintf", "sprintf",
   "restart", "getenv", "setenv", "tfsinit", "tfsadd", "tfsunlink", "tfsrun", "tfsnext",
   "tfsstat", "tfsread", "tfswrite", "tfsopen", "tfsclose", "tfsseek", "tfsgetline",
   "tfsipmod", "tfsctrl", "addcommand", "docommand", "getargv", "xcrc16", "crc32",
   "intsoff", "intsrestore", "appexit", "malloc", "free", "getline", "tfsfstat",
   "tfseof", "decompress", "tfstruncate", "heapextend", "profiler", "tfslink", "bbc",
   "memtrace", "tfstell", "version", "warmstart", "pcicfgread", "pcicfgwrite",
   "pcictrl", "i2cread", "i2cwrite", "i2cctrl", "delay", "getenvp", "realloc",
   "sendenetpkt", "recvenetpkt", "getsym", "printpkt", "flashwrite", "flasherase",
   "flashinfo", "assignhandler", "watchdog", "printmem", "portcmd", "timeofday",
   "timer", "flashoverride"}

\* The wrappers, in the order of the file.
ConsoleCalls ==
  {"com", "putchar", "getchar", "gotachar", "getbytes", "printf", "cprintf",
   "sprintf", "restart"}
EnvironmentCalls == {"getenvp", "getenv", "setenv", "getsym"}
TfsCalls ==
  {"tfsinit", "tfsadd", "tfslink", "tfsunlink", "tfsrun", "tfsnext", "tfstruncate",
   "tfseof", "tfsfstat", "tfsstat"}
FileCalls ==
  {"tfsread", "tfswrite", "tfsopen", "tfsclose", "tfsseek", "tfsgetline", "tfsipmod",
   "tfsctrl", "tfstell"}
CommandCalls ==
  {"addcommand", "docommand", "getargv", "xcrc16", "intsoff", "intsrestore", "appexit"}
HeapCalls == {"malloc", "realloc", "free", "getline", "decompress", "heapextend"}
Unlocked == {"bbc", "profiler", "memtrace"}
BusCalls ==
  {"version", "warmstart", "pcicfgwrite", "pcicfgread", "pcictrl", "i2cctrl",
   "i2cwrite", "i2cread"}
DeviceCalls ==
  {"delay", "timer", "sendenetpkt", "recvenetpkt", "printpkt", "flashoverride",
   "flashwrite", "flasherase", "flashinfo", "assignhandler", "watchdog", "printmem",
   "portcmd", "timeofday"}

Wrappers ==
  UNION {ConsoleCalls, EnvironmentCalls, TfsCalls, FileCalls, CommandCalls, HeapCalls,
         Unlocked, BusCalls, DeviceCalls}

ASSUME MonitorAssumption ==
  /\ Cli \in Tasks /\ Called \subseteq Wrappers
  /\ Refusable \subseteq GetMonFunc /\ IsFiniteSet(Refusable)
  /\ MaxAhead \in Nat \ {0}

VARIABLES
  connected,   \* the functions whose pointer is not null
  rc,          \* what monConnect returned, or -1 before it is called
  monlock,     \* is _monlock set?
  monunlock,   \* is _monunlock set?
  connecting,  \* what monConnect has still to do: "unlock" to store _monunlock too,
               \* "pointers" to fetch the pointers, or "no"thing
  ignorelock,
  read,        \* read[t]: the value of ignorelock that t is about to count down
  tokens,      \* the count of the application's semaphore
  took,        \* took[t]: how often t has taken the lock, less how often it gave it back
  frames,      \* frames[t]: the wrappers t is in, the innermost first
  stage,       \* stage[t]: how far t is in the innermost
  opened,      \* has the user disabled the lock, and not enabled it since?
  crashed,     \* was a null pointer called?
  misused,     \* history: was the back door left open when a command ended, or did
               \* another task pass by while it was open?
  relocked     \* history: were the locks changed while a task was in the library,
               \* or did one enter between the two stores?

monitor == <<connected, rc, crashed>>
lock == <<ignorelock, read, tokens, took>>
pointers == <<monlock, monunlock, connecting>>
history == <<misused, relocked>>
vars == <<monitor, lock, pointers, frames, stage, opened, history>>

Init ==
  /\ connected = {} /\ rc = -1 /\ crashed = FALSE
  /\ monlock = FALSE /\ monunlock = FALSE /\ connecting = "no"
  /\ ignorelock = 0 /\ tokens = 1
  /\ read = [t \in Tasks |-> 0] /\ took = [t \in Tasks |-> 0]
  /\ frames = [t \in Tasks |-> <<>>] /\ stage = [t \in Tasks |-> "out"]
  /\ opened = FALSE /\ misused = FALSE /\ relocked = FALSE

-----------------------------------------------------------------------------
(* monConnect: the two stores, then, with the monitor's address, a pointer *)
(* for each function.                                                      *)

\* At most one call after the first is careless: while a task is in the library.
StoreLock(l) ==
  /\ connecting = "no" /\ ~relocked
  /\ monlock' = l /\ connecting' = "unlock"
  /\ relocked' = (relocked \/ \E t \in Tasks : stage[t] # "out")
  /\ UNCHANGED <<monitor, lock, monunlock, frames, stage, opened, misused>>

\* The caller gives both functions or none.  Only the first call, Cstart's, has the
\* monitor's address.
StoreUnlock ==
  /\ connecting = "unlock"
  /\ monunlock' = monlock
  /\ connecting' = IF rc = -1 THEN "pointers" ELSE "no"
  /\ UNCHANGED <<monitor, lock, monlock, frames, stage, opened, history>>

\* Mutant: the result is that of the last request.
ConnectForgets(mon) ==
  /\ connecting = "pointers"
  /\ connected' = mon \cup {"com"}
  /\ rc' = IF "flashoverride" \in mon THEN 0 ELSE 1
  /\ connecting' = "no"
  /\ UNCHANGED <<lock, monlock, monunlock, crashed, frames, stage, opened, history>>

\* A pointer for each function that this monitor, mon, has, and how many there are that
\* it has not.
Connect(mon) ==
  /\ connecting = "pointers"
  /\ connected' = (GetMonFunc \cap mon) \cup {"com"}
  /\ rc' = Cardinality(GetMonFunc \ mon)
  /\ connecting' = "no"
  /\ UNCHANGED <<lock, monlock, monunlock, crashed, frames, stage, opened, history>>

-----------------------------------------------------------------------------
(* The wrappers.                                                           *)

At(t, s) == stage[t] = s
Goto(t, s) == stage' = [stage EXCEPT ![t] = s]

\* Another task than the user's passes a test of ignorelock while it is set.
PassedBy(t) == misused' = (misused \/ (ignorelock # 0 /\ t # Cli))

EnterWrapper(t, f) ==
  /\ frames' = [frames EXCEPT ![t] = <<f>> \o @]
  /\ Goto(t, IF f \in Unlocked THEN "enter" ELSE "lock")

Call(t, f) ==
  /\ At(t, "out") /\ rc # -1
  /\ f = "docommand" => t = Cli
  /\ EnterWrapper(t, f)
  /\ relocked' = (relocked \/ connecting = "unlock")
  /\ UNCHANGED <<monitor, lock, pointers, opened, misused>>

\* Mutant: only 0 means that the lock is to be taken, and 2 is left as it is.
MonLockKeeps(t) ==
  /\ At(t, "lock")
  /\ Goto(t, IF ~monlock \/ ignorelock # 0 THEN "enter" ELSE "call")
  /\ PassedBy(t)
  /\ UNCHANGED <<monitor, lock, pointers, frames, opened, relocked>>

\* Mutant: the state of the back door is not looked at.
MonLockAlways(t) ==
  /\ At(t, "lock")
  /\ Goto(t, IF ~monlock THEN "enter" ELSE "call")
  /\ PassedBy(t)
  /\ UNCHANGED <<monitor, lock, pointers, frames, opened, relocked>>

\* monLock: the test of the pointer and of ignorelock.
MonLock(t) ==
  /\ At(t, "lock")
  /\ Goto(t, CASE ~monlock \/ ignorelock = 1 -> "enter"
               [] monlock /\ ignorelock = 2 -> "count"
               [] OTHER -> "call")
  /\ PassedBy(t)
  /\ UNCHANGED <<monitor, lock, pointers, frames, opened, relocked>>

\* ignorelock--: the value is the 2 of the switch, or read again; then it is stored.
CountRead(t, from, to) ==
  /\ At(t, from)
  /\ \E n \in {2, ignorelock} : read' = [read EXCEPT ![t] = n]
  /\ Goto(t, to)
  /\ UNCHANGED <<monitor, pointers, ignorelock, tokens, took, frames, opened, history>>

CountStored(t, from, to) ==
  /\ At(t, from)
  /\ ignorelock' = read[t] - 1 /\ read' = [read EXCEPT ![t] = 0]
  /\ Goto(t, to)
  /\ UNCHANGED <<monitor, pointers, tokens, took, frames, opened, history>>

LockCount(t) == CountRead(t, "count", "store") \/ CountStored(t, "store", "enter")

\* The pointer is called as it was tested, or read again: it may be null by now.
LockCall(t) ==
  /\ At(t, "call")
  /\ Goto(t, "wait")
  /\ UNCHANGED <<monitor, lock, pointers, frames, opened, history>>

PointerGone(t) ==
  /\ (At(t, "call") /\ ~monlock) \/ (At(t, "release") /\ ~monunlock)
  /\ crashed' = TRUE
  /\ UNCHANGED <<connected, rc, lock, pointers, frames, stage, opened, history>>

LockTake(t) ==
  /\ At(t, "wait") /\ tokens > 0 /\ took[t] < MaxAhead
  /\ tokens' = tokens - 1 /\ took' = [took EXCEPT ![t] = @ + 1]
  /\ Goto(t, "enter")
  /\ UNCHANGED <<monitor, pointers, ignorelock, read, frames, opened, history>>

\* The call through the pointer.
CallMonitor(t) ==
  /\ At(t, "enter")
  /\ IF Head(frames[t]) \in connected
       THEN Goto(t, "inside") /\ crashed' = crashed
       ELSE crashed' = TRUE /\ stage' = stage
  /\ UNCHANGED <<connected, rc, lock, pointers, frames, opened, history>>

\* Back in the caller: the application, or the command that called it.
LeaveWrapper(t) ==
  /\ frames' = [frames EXCEPT ![t] = Tail(@)]
  /\ Goto(t, IF Len(frames[t]) = 1 THEN "out" ELSE "inside")

MonitorReturns(t) ==
  /\ At(t, "inside")
  /\ IF Head(frames[t]) \in Unlocked
       THEN LeaveWrapper(t)
       ELSE Goto(t, "unlock") /\ frames' = frames
  /\ misused' = (misused \/ (opened /\ frames[t] = <<"docommand">>))
  /\ UNCHANGED <<monitor, lock, pointers, opened, relocked>>

\* monUnlock: the test; with 2, it goes on to give the lock back.
MonUnlock(t) ==
  /\ At(t, "unlock")
  /\ IF ~monunlock \/ ignorelock = 1
       THEN LeaveWrapper(t)
       ELSE Goto(t, IF ignorelock = 2 THEN "uncount" ELSE "release") /\ frames' = frames
  /\ PassedBy(t)
  /\ UNCHANGED <<monitor, lock, pointers, opened, relocked>>

UnlockCount(t) == CountRead(t, "uncount", "unstore") \/ CountStored(t, "unstore", "release")

LockRelease(t) ==
  /\ At(t, "release") /\ took[t] > -MaxAhead
  /\ tokens' = tokens + 1 /\ took' = [took EXCEPT ![t] = @ - 1]
  /\ LeaveWrapper(t)
  /\ UNCHANGED <<monitor, pointers, ignorelock, read, opened, history>>

-----------------------------------------------------------------------------
(* What the user makes mon_docommand call.                                 *)

InCommand == At(Cli, "inside") /\ frames[Cli] = <<"docommand">>

\* Mutant: DisableMonLock adds 2.
DisableMonLockAdds ==
  /\ InCommand /\ ignorelock < 6
  /\ ignorelock' = ignorelock + 2 /\ opened' = TRUE
  /\ UNCHANGED <<monitor, pointers, read, tokens, took, frames, stage, history>>

DisableMonLock ==
  /\ InCommand
  /\ ignorelock' = 2 /\ opened' = TRUE
  /\ UNCHANGED <<monitor, pointers, read, tokens, took, frames, stage, history>>

\* Mutant: EnableMonLock leaves what DisableMonLock set.
EnableMonLockNot ==
  /\ InCommand
  /\ ignorelock' = ignorelock /\ opened' = FALSE
  /\ UNCHANGED <<monitor, pointers, read, tokens, took, frames, stage, history>>

EnableMonLock ==
  /\ InCommand
  /\ ignorelock' = 0 /\ opened' = FALSE
  /\ UNCHANGED <<monitor, pointers, read, tokens, took, frames, stage, history>>

\* A function of the application with a mon_f in it.
CallFunction(f) ==
  /\ InCommand /\ opened /\ f # "docommand"
  /\ EnterWrapper(Cli, f)
  /\ UNCHANGED <<monitor, lock, pointers, opened, history>>

-----------------------------------------------------------------------------
TaskStep(t) ==
  \/ \E f \in Called : Call(t, f)
  \/ MonLock(t) \/ LockCount(t) \/ LockCall(t) \/ LockTake(t)
  \/ CallMonitor(t) \/ MonitorReturns(t)
  \/ MonUnlock(t) \/ UnlockCount(t) \/ LockRelease(t)
  \/ PointerGone(t)

UserStep ==
  DisableMonLock \/ EnableMonLock \/ \E f \in Called : CallFunction(f)

Next ==
  /\ ~crashed
  /\ \/ \E l \in BOOLEAN : StoreLock(l)
     \/ StoreUnlock
     \/ \E refused \in SUBSET Refusable : Connect(GetMonFunc \ refused)
     \/ \E t \in Tasks : TaskStep(t)
     \/ UserStep

Spec == Init /\ [][Next]_vars

-----------------------------------------------------------------------------
(* Properties.                                                             *)

\* Type correctness.
TypeOK ==
  /\ connected \subseteq GetMonFunc \cup {"com"}
  /\ rc \in -1 .. Cardinality(Refusable)
  /\ monlock \in BOOLEAN /\ monunlock \in BOOLEAN
  /\ connecting \in {"no", "unlock", "pointers"}
  /\ opened \in BOOLEAN /\ crashed \in BOOLEAN /\ misused \in BOOLEAN /\ relocked \in BOOLEAN
  /\ ignorelock \in Int /\ ignorelock <= 2
  /\ read \in [Tasks -> Int] /\ \A t \in Tasks : read[t] <= 2
  /\ tokens \in Nat
  /\ took \in [Tasks -> -MaxAhead .. MaxAhead]
  /\ frames \in [Tasks -> Seq(Wrappers)]
  /\ stage \in [Tasks -> {"out", "lock", "count", "store", "call", "wait", "enter",
                          "inside", "unlock", "uncount", "unstore", "release"}]

\* The back door, if used, is opened and closed inside one command while no other
\* task calls, and both locks are set while no task is inside.
Proper == ~misused /\ ~relocked

\* With locks, and used properly, two tasks are never in the monitor at once, except
\* in the three functions whose wrapper takes no lock.
Inside(t) ==
  frames[t] # <<>> /\ frames[t][Len(frames[t])] \notin Unlocked
    /\ (Len(frames[t]) > 1 \/ At(t, "inside"))
Exclusion ==
  monlock /\ monunlock /\ Proper => \A t, u \in Tasks : Inside(t) /\ Inside(u) => t = u

\* Under the same conditions every lock taken is given back, once, by the task
\* that took it: a task outside the library never holds it.
LockBalanced ==
  Proper =>
    /\ tokens <= 1
    /\ \A t \in Tasks : took[t] \in {0, 1} /\ (At(t, "out") => took[t] = 0)

\* What the back door is for: a function that the user makes a command call never
\* waits for the lock that this very command holds.
NoSelfDeadlock ==
  \A t \in Tasks : Proper /\ At(t, "wait") => took[t] = 0

\* A call through a null pointer is announced, monConnect told that a function is
\* missing (which Cstart does not look at), unless the locks were changed while a task
\* was in the library, and taken away between its test and its call.
MissingIsTold == crashed => rc > 0 \/ relocked

\* The comment on ignorelock has the user issue "call %DisableLock", a call of the
\* function and "call %EnableLock" as three commands.  The lock is then never given
\* back without having been taken.
NothingUnlockedTwice == ~relocked => tokens <= 1
==============================================================================
