---------------------------- MODULE Diagnostics ----------------------------
(***************************************************************************)
(* micromonitor/diagnostics: cstart.c connects the program to the monitor, *)
(* main.c asks the user for the result of the diagnostics and leaves it in *)
(* the monitor's environment.  There are no locks; the wrappers then do no *)
(* more than call the monitor's function.                                  *)
(***************************************************************************)

VARIABLES
  has,         \* the functions that this monitor has
  at,          \* the next call, or how the program stopped
  key,         \* the last key, "none" before the first
  result,      \* the local variable of main
  DIAGNOSTICS_RESULT    \* the variable in the monitor's environment

diagnostics == <<key, result, DIAGNOSTICS_RESULT>>
diagnosticsVars == <<has, at, diagnostics>>

\* One of these functions may be missing from an old monitor.
Needed == {"getargv", "printf", "gotachar", "getchar", "setenv", "getenv"}
Keys == {"p", "f", "u", "other"}
Results == [p |-> "PASS", f |-> "FAIL", u |-> "UNKNOWN"]

DiagnosticsIdle ==
  /\ has = Needed /\ at = "connect"
  /\ key = "none" /\ result = "null" /\ DIAGNOSTICS_RESULT = "unset"

\* Cstart does not look at what monConnect returns.
Cstart ==
  /\ at = "connect"
  /\ has' \in {Needed} \cup {Needed \ {f} : f \in Needed}
  /\ at' = "getargv"
  /\ UNCHANGED diagnostics

\* A call of a function that is missing is one through a null pointer.
Calls(place, f, next) ==
  /\ at = place /\ has' = has
  /\ at' = IF f \in has THEN next ELSE "crashed"

Greet ==
  /\ \/ Calls("getargv", "getargv", "ask")
     \/ Calls("ask", "printf", "poll")
  /\ UNCHANGED diagnostics

\* getakey: poll until there is a key, then fetch it.
getakey ==
  \/ /\ \/ Calls("poll", "gotachar", "poll")
        \/ Calls("poll", "gotachar", "fetch")
     /\ UNCHANGED diagnostics
  \/ /\ Calls("fetch", "getchar", "echo")
     /\ key' \in IF "getchar" \in has THEN Keys ELSE {key}
     /\ UNCHANGED <<result, DIAGNOSTICS_RESULT>>

\* Mutant: an unknown response ends the loop too.
JudgeAny ==
  /\ Calls("echo", "printf", "set")
  /\ result' = IF key \in DOMAIN Results THEN Results[key] ELSE result
  /\ UNCHANGED <<key, DIAGNOSTICS_RESULT>>

Judge ==
  /\ Calls("echo", "printf", IF key \in DOMAIN Results THEN "set" ELSE "poll")
  /\ result' = IF key \in DOMAIN Results THEN Results[key] ELSE result
  /\ UNCHANGED <<key, DIAGNOSTICS_RESULT>>

SetResult ==
  /\ Calls("set", "setenv", "get")
  /\ DIAGNOSTICS_RESULT' = IF "setenv" \in has THEN result ELSE DIAGNOSTICS_RESULT
  /\ UNCHANGED <<key, result>>

Report ==
  /\ \/ Calls("get", "getenv", "tell")
     \/ Calls("tell", "printf", "returned")
  /\ UNCHANGED diagnostics

DiagnosticsNext == Cstart \/ Greet \/ getakey \/ Judge \/ SetResult \/ Report

-----------------------------------------------------------------------------
\* Type correctness.
DiagnosticsTypeOK ==
  /\ has \subseteq Needed
  /\ at \in {"connect", "getargv", "ask", "poll", "fetch", "echo", "set", "get", "tell",
             "returned", "crashed"}
  /\ key \in Keys \cup {"none"}
  /\ result \in {"null", "PASS", "FAIL", "UNKNOWN"}
  /\ DIAGNOSTICS_RESULT \in {"unset", "PASS", "FAIL", "UNKNOWN"}

\* The monitor's script never reads a result the user did not give: whatever functions
\* the monitor lacks, the variable is unset or holds what the last key stands for, and
\* it holds that when main returns.
ResultIsTheUsers ==
  /\ DIAGNOSTICS_RESULT # "unset" => /\ key \in DOMAIN Results
                                     /\ DIAGNOSTICS_RESULT = Results[key]
  /\ at = "returned" => DIAGNOSTICS_RESULT # "unset"
==============================================================================
