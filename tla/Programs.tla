------------------------------ MODULE Programs ------------------------------
(***************************************************************************)
(* One example program is chosen and run on the same kernel; the variables *)
(* of the others stay as they are.                                         *)
(***************************************************************************)
EXTENDS LedTasks, Tickers, Regulator, ThreadRestart, StatMenu, UserDriver, Diagnostics

Alone == {"complex1", "userdrv", "diagnostics"}       \* what has one thread
AllPrograms ==
  LedPrograms \cup TickerPrograms \cup {"regulator", "psx_task_restart"} \cup Alone

ledOnly == <<thread, object, timer, lamp, history>>
tickerOnly == <<seconds, tickerTask>>
regulatorOnly == <<stock, sender>>
programVars ==
  <<program, kernel, ledOnly, tickerOnly, regulatorOnly, restart, menuVars, driverVars,
    diagnosticsVars>>

Idle ==
  /\ LedIdle /\ TickerIdle /\ RegulatorIdle /\ RestartIdle
  /\ MenuIdle /\ DriverIdle /\ DiagnosticsIdle

ProgramsInit ==
  /\ program \in AllPrograms
  /\ CASE program \in LedPrograms -> LedBoot
       [] program \in TickerPrograms -> TickerBoot
       [] program = "regulator" -> RegulatorBoot
       [] program = "psx_task_restart" -> RestartBoot
       [] OTHER -> Boot(<<>>)
  /\ Idle

ProgramsNext ==
  \/ /\ LedNext
     /\ UNCHANGED <<tickerOnly, regulatorOnly, restart, menuVars, driverVars, diagnosticsVars>>
  \/ /\ TickerNext
     /\ UNCHANGED <<ledOnly, regulatorOnly, restart, menuVars, driverVars, diagnosticsVars>>
  \/ /\ RegulatorNext
     /\ UNCHANGED <<ledOnly, tickerOnly, restart, menuVars, driverVars, diagnosticsVars>>
  \/ /\ RestartNext
     /\ UNCHANGED <<ledOnly, tickerOnly, regulatorOnly, menuVars, driverVars, diagnosticsVars>>
  \/ /\ program = "complex1" /\ Answer
     /\ UNCHANGED <<program, kernel, ledOnly, tickerOnly, regulatorOnly, restart, driverVars,
                    diagnosticsVars>>
  \/ /\ program = "userdrv" /\ DriverNext
     /\ UNCHANGED <<program, kernel, ledOnly, tickerOnly, regulatorOnly, restart, menuVars,
                    diagnosticsVars>>
  \/ /\ program = "diagnostics" /\ DiagnosticsNext
     /\ UNCHANGED <<program, kernel, ledOnly, tickerOnly, regulatorOnly, restart, menuVars,
                    driverVars>>

\* A thread that can run does, and the clock ticks; a user or a monitor owes nothing.
ProgramsSpec ==
  ProgramsInit /\ [][ProgramsNext]_programVars /\ WF_programVars(program \notin Alone /\ ProgramsNext)

\* Type correctness of the part of the program that runs.
ProgramsTypeOK ==
  /\ program \in AllPrograms
  /\ program \in LedPrograms => LedTypeOK
  /\ TickerTypeOK /\ RegulatorTypeOK /\ RestartTypeOK
  /\ MenuTypeOK /\ DriverTypeOK /\ DiagnosticsTypeOK
=============================================================================
