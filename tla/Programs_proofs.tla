-------------------------- MODULE Programs_proofs --------------------------
(***************************************************************************)
(* Proofs about the small programs, each as a part of Programs: for any    *)
(* length of a second and any lateness of a thread, any size of the table  *)
(* of files, any line the user types and any functions a monitor lacks.    *)
(***************************************************************************)
EXTENDS Programs, LedTasks_proofs, Regulator_proofs, TLAPS

-----------------------------------------------------------------------------
(* Each step of Programs is a step of the part, or leaves it alone.        *)

LEMMA MenuSteps ==
  ASSUME [ProgramsNext]_programVars
  PROVE  Answer \/ UNCHANGED menuVars
  BY DEF ProgramsNext, programVars

LEMMA DriverSteps ==
  ASSUME [ProgramsNext]_programVars
  PROVE  DriverNext \/ UNCHANGED driverVars
  BY DEF ProgramsNext, programVars

LEMMA DiagnosticsSteps ==
  ASSUME [ProgramsNext]_programVars
  PROVE  DiagnosticsNext \/ UNCHANGED diagnosticsVars
  BY DEF ProgramsNext, programVars

-----------------------------------------------------------------------------
(* The menus.                                                              *)

\* What the table of files can look like, and that the line in the buffer is not an
\* answer to the question that is asked.
TableOK ==
  /\ failure = "none" => IF FileNamesLoaded THEN FileCount > 0 /\ sorted ELSE FileCount = 0
  /\ failure = "open" => FileNamesLoaded /\ FileCount = 0
  /\ failure = "too many" => FileNamesLoaded /\ FileCount = MaxFiles
  /\ leftOpen => failure = "too many"
BufferOK == asked \in Questions /\ Message # Unknown => ~Valid(asked, Message)
MenuInv ==
  /\ MenuTypeOK /\ TableOK /\ BufferOK
  /\ asked = "assertion failed" => failure = "open"
  /\ asked = "stat" => FileCount > 0

LEMMA QuestionsAre ==
  /\ Questions = {"main", "led", "on", "off", "threads", "number", "stat"}
  /\ Greatest["main"] = 8 /\ Greatest["led"] = 3 /\ Greatest["on"] = 2 /\ Greatest["off"] = 2
  /\ Greatest["threads"] = 3 /\ Greatest["number"] = 2 /\ Greatest["stat"] = FileCount - 1
  /\ \A q \in Questions : Least[q] = IF q \in {"on", "off", "number"} THEN 1 ELSE 0
  BY DEF Questions, Greatest, Least

\* Only the question about the files may have no answer.
LEMMA Answerable ==
  ASSUME MenuTypeOK, NEW q \in Questions
  PROVE  (Least[q] <= Greatest[q]) <=> (q = "stat" => FileCount > 0)
<1>1. FileCount \in Int
  <2>1. FileCount \in 0 .. MaxFiles
    BY DEF MenuTypeOK
  <2> QED
    BY <2>1
<1>2. CASE q = "stat"
  <2>1. Least[q] = 0 /\ Greatest[q] = FileCount - 1
    BY <1>2, QuestionsAre
  <2> QED
    BY <1>1, <1>2, <2>1
<1>3. CASE q # "stat"
  <2>1. Least[q] \in 0 .. 1 /\ Greatest[q] \in 2 .. 8
    BY <1>3, QuestionsAre
  <2> QED
    BY <1>3, <2>1
<1> QED
  BY <1>2, <1>3

\* To ask a question that is not about the files.
LEMMA AskOther ==
  ASSUME MenuTypeOK, NEW q \in Questions \ {"stat"}, Ask(q)
  PROVE  asked' = q /\ Message' = Unknown
  BY Answerable DEF Ask

\* To ask about the files of a table that was loaded before.
LEMMA AskStat ==
  ASSUME MenuTypeOK, Ask("stat")
  PROVE  /\ asked' = IF FileCount > 0 THEN "stat" ELSE "assertion failed"
         /\ Message' = Unknown
  BY Answerable, QuestionsAre DEF Ask

LEMMA AfterIs ==
  ASSUME NEW q \in Questions, NEW n
  PROVE  After(q, n) \in (Questions \ {"stat"}) \cup {"done", q}
  BY QuestionsAre DEF After

\* What an answer leads to.  Each step of the menus keeps the invariant.
LEMMA FollowKeeps ==
  ASSUME MenuInv, NEW q \in Questions, q = asked, NEW n, Follow(q, n),
         atEnd' \in BOOLEAN
  PROVE  MenuInv'
<1>a. FileCount \in 0 .. MaxFiles /\ MaxFiles \in Nat /\ MaxFiles > 1
  <2>1. MaxFiles \in Nat /\ MaxFiles > 1
    BY MenuAssumption
  <2>2. FileCount \in 0 .. MaxFiles
    BY DEF MenuInv, MenuTypeOK
  <2> QED
    BY <2>1, <2>2
<1>c. /\ FileNamesLoaded \in BOOLEAN /\ sorted \in BOOLEAN /\ leftOpen \in BOOLEAN
      /\ failure \in {"none", "open", "too many"}
  BY DEF MenuInv, MenuTypeOK
<1>d. "main" \in Questions \ {"stat"} /\ "stat" \in Questions
  BY QuestionsAre
<1>b. ASSUME Message' = Unknown, TableOK', asked' \in Questions \cup {"done", "assertion failed"},
             FileCount' \in 0 .. MaxFiles, failure' \in {"none", "open", "too many"},
             FileNamesLoaded' \in BOOLEAN, sorted' \in BOOLEAN, leftOpen' \in BOOLEAN,
             atEnd' \in BOOLEAN, asked' = "assertion failed" => failure' = "open",
             asked' = "stat" => FileCount' > 0
      PROVE  MenuInv'
  <2>1. MenuTypeOK'
    BY <1>b, MaxFiles' = MaxFiles, Zenon DEF MenuTypeOK, Questions, Greatest
  <2>2. BufferOK'
    BY <1>b DEF BufferOK
  <2> QED
    BY <1>b, <2>1, <2>2 DEF MenuInv
<1>1. CASE q = "main" /\ n = 2 /\ OpenFails
  <2>1. asked' = "main" /\ Message' = Unknown
    BY <1>1, AskOther, <1>d DEF OpenFails, MenuInv
  <2> QED
    BY <1>1, <1>a, <1>b, <1>c, <1>d, <2>1 DEF MenuInv, TableOK, OpenFails
<1>2. CASE q = "main" /\ n = 2 /\ LoadNames
  <2>1. PICK names \in 0 .. MaxFiles + 1 :
          /\ ~FileNamesLoaded /\ FileNamesLoaded' = TRUE
          /\ IF names + 1 < MaxFiles
               THEN /\ FileCount' = names + 1 /\ sorted' = TRUE
                    /\ asked' = "stat" /\ Message' = Unknown
                    /\ UNCHANGED <<leftOpen, failure>>
               ELSE /\ FileCount' = MaxFiles /\ leftOpen' = TRUE /\ failure' = "too many"
                    /\ Ask("main")
                    /\ sorted' = sorted
    BY <1>2 DEF LoadNames
  <2>2. CASE names + 1 < MaxFiles
    <3>1. /\ FileCount' = names + 1 /\ sorted' = TRUE /\ FileNamesLoaded' = TRUE
          /\ asked' = "stat" /\ Message' = Unknown /\ leftOpen' = leftOpen /\ failure' = failure
      BY <2>1, <2>2
    <3>2. FileCount' \in 0 .. MaxFiles /\ FileCount' > 0
      BY <2>2, <3>1, <1>a
    <3>3. failure = "none" /\ leftOpen = FALSE
      BY <2>1, <1>c DEF MenuInv, TableOK
    <3>4. TableOK'
      BY <3>1, <3>2, <3>3 DEF TableOK
    <3> QED
      BY <3>1, <3>2, <3>3, <3>4, <1>a, <1>b, <1>c, <1>d
  <2>3. CASE ~(names + 1 < MaxFiles)
    <3>1. asked' = "main" /\ Message' = Unknown
      BY <2>1, <2>3, AskOther, <1>d DEF MenuInv
    <3>2. MaxFiles \in 0 .. MaxFiles
      BY <1>a
    <3> QED
      BY <2>1, <2>3, <3>1, <3>2, <1>b, <1>c, <1>d DEF TableOK
  <2> QED
    BY <2>2, <2>3
<1>3. CASE q = "main" /\ n = 2 /\ AlreadyLoaded
  <2>1. asked' = (IF FileCount > 0 THEN "stat" ELSE "assertion failed") /\ Message' = Unknown
    BY <1>3, AskStat DEF AlreadyLoaded, MenuInv
  <2>2. UNCHANGED files /\ FileNamesLoaded
    BY <1>3 DEF AlreadyLoaded
  <2>3. TableOK' /\ (FileCount = 0 => failure = "open")
    <3>1. FileCount = 0 => failure = "open"
      <4>1. FileCount = 0 => ~(FileCount > 0) /\ FileCount # MaxFiles
        BY <1>a
      <4>2. /\ failure = "none" => FileCount > 0
            /\ failure = "too many" => FileCount = MaxFiles
        BY <2>2 DEF MenuInv, TableOK
      <4> QED
        BY <4>1, <4>2, <1>c
    <3> QED
      BY <2>2, <3>1 DEF MenuInv, TableOK, files
  <2>4. asked' = "assertion failed" => failure' = "open"
    <3>1. CASE FileCount > 0
      BY <2>1, <3>1
    <3>2. CASE ~(FileCount > 0)
      <4>1. FileCount = 0
        BY <3>2, <1>a
      <4> QED
        BY <4>1, <2>2, <2>3 DEF files
    <3> QED
      BY <3>1, <3>2
  <2>5. asked' = "stat" => FileCount' > 0
    BY <2>1, <2>2 DEF files
  <2> QED
    BY <1>a, <1>b, <1>c, <1>d, <2>1, <2>2, <2>3, <2>4, <2>5 DEF files
<1>4. CASE ~(q = "main" /\ n = 2)
  <2>1. UNCHANGED files /\ TableOK'
    BY <1>4 DEF Follow, MenuInv, TableOK, files
  <2>2. CASE After(q, n) = "done"
    BY <1>4, <2>1, <2>2, <1>a, <1>b, <1>c, <1>d DEF Follow, files
  <2>3. CASE After(q, n) # "done" /\ After(q, n) # "stat"
    <3>1. asked' = After(q, n) /\ After(q, n) \in Questions \ {"stat"} /\ Message' = Unknown
      BY <1>4, <2>3, AfterIs, AskOther DEF Follow, MenuInv
    <3> QED
      BY <2>1, <3>1, <1>a, <1>b, <1>c, <1>d, QuestionsAre DEF files
  <2>4. After(q, n) # "stat"
    BY AfterIs, QuestionsAre DEF After
  <2> QED
    BY <2>2, <2>3, <2>4
<1> QED
  BY <1>1, <1>2, <1>3, <1>4 DEF Follow, statFile

LEMMA AnswerKeeps ==
  ASSUME MenuInv, Answer
  PROVE  MenuInv'
<1>1. PICK line \in Lines :
        /\ Line(line)
        /\ IF Valid(asked, line)
             THEN Follow(asked, line)
             ELSE Message' = line /\ UNCHANGED <<asked, files>>
  BY DEF Answer
<1>2. atEnd' \in BOOLEAN /\ asked \in Questions
  BY <1>1 DEF Line, Answer
<1>3. CASE Valid(asked, line)
  BY <1>1, <1>2, <1>3, FollowKeeps
<1>4. CASE ~Valid(asked, line)
  <2>1. Message' = line /\ UNCHANGED <<asked, files>>
    BY <1>1, <1>4
  <2>2. MenuTypeOK'
    BY <1>2, <2>1, Zenon DEF MenuInv, MenuTypeOK, files, Questions, Greatest
  <2>3. BufferOK'
    BY <1>4, <2>1 DEF BufferOK, Valid, Least, Greatest, Questions, files
  <2> QED
    BY <2>1, <2>2, <2>3 DEF MenuInv, TableOK, files
<1> QED
  BY <1>3, <1>4

LEMMA MenuStarts == MenuIdle => MenuInv
<1> SUFFICES ASSUME MenuIdle PROVE MenuInv
  OBVIOUS
<1>1. FileCount \in 0 .. MaxFiles
  BY MenuAssumption DEF MenuIdle
<1>2. MenuTypeOK
  BY <1>1, QuestionsAre DEF MenuIdle, MenuTypeOK
<1> QED
  BY <1>2 DEF MenuIdle, MenuInv, TableOK, BufferOK

LEMMA MenuInvHolds == ProgramsSpec => []MenuInv
<1>1. ProgramsInit => MenuInv
  BY MenuStarts DEF ProgramsInit, Idle
<1>2. MenuInv /\ [ProgramsNext]_programVars => MenuInv'
  <2> SUFFICES ASSUME MenuInv, [ProgramsNext]_programVars
               PROVE  MenuInv'
    OBVIOUS
  <2>1. CASE Answer
    BY <2>1, AnswerKeeps
  <2>2. CASE UNCHANGED menuVars
    BY <2>2, Zenon
       DEF MenuInv, MenuTypeOK, TableOK, BufferOK, menuVars, files, Valid, Least, Greatest,
           Questions
  <2> QED
    BY <2>1, <2>2, MenuSteps
<1> QED
  BY <1>1, <1>2, PTL DEF ProgramsSpec

\* However many names the directory has, whether it can be opened or not, and whatever
\* the user types: the table that LoadDirectoryMenu fills is never overrun, the user
\* picks from one that is not empty, and an assertion on the bounds of his answer fails
\* only after a directory could not be opened.
THEOREM FilesAreOffered == ProgramsSpec => []FilesOffered
<1>1. MenuInv => FilesOffered
  <2> SUFFICES ASSUME MenuInv PROVE FilesOffered
    OBVIOUS
  <2>1. FileCount <= MaxFiles
    <3>1. FileCount \in 0 .. MaxFiles
      BY DEF MenuInv, MenuTypeOK
    <3> QED
      BY <3>1, MenuAssumption
  <2>2. asked = "stat" => FileCount > 0 /\ FileCount # 0
    BY DEF MenuInv
  <2>3. asked = "stat" => sorted \/ failure = "too many"
    BY <2>2 DEF MenuInv, MenuTypeOK, TableOK
  <2> QED
    BY <2>1, <2>2, <2>3 DEF MenuInv, TableOK, FilesOffered
<1> QED
  BY <1>1, MenuInvHolds, PTL

\* A line in the buffer at the end of the input was no answer, and never becomes one:
\* the loop of Test_menu_Get_int_bounded does not end.
THEOREM NoAnswerAfterTheEnd == ProgramsSpec => StuckAtEnd
<1>1. MenuInv /\ [ProgramsNext]_programVars
        => [atEnd /\ asked \in Questions /\ Message # Unknown => asked' = asked]_menuVars
  <2> SUFFICES ASSUME MenuInv, Answer, atEnd, asked \in Questions, Message # Unknown
               PROVE  asked' = asked
    BY MenuSteps
  <2>1. ~Valid(asked, Message)
    BY DEF MenuInv, BufferOK
  <2> QED
    BY <2>1 DEF Answer, Line
<1> QED
  BY <1>1, MenuInvHolds, PTL DEF ProgramsSpec, StuckAtEnd

-----------------------------------------------------------------------------
(* The LED programs.                                                       *)

LEMMA LedProgramsApart ==
  /\ LedPrograms \cap TickerPrograms = {} /\ LedPrograms \cap Alone = {}
  /\ "regulator" \notin LedPrograms /\ "psx_task_restart" \notin LedPrograms
  BY DEF LedPrograms, Text, TickerPrograms, Body, Alone

LEMMA LedInvHolds == ProgramsSpec => []LedInv
<1>1. ProgramsInit => LedInv
  <2> SUFFICES ASSUME ProgramsInit PROVE LedInv
    OBVIOUS
  <2>1. LedIdle
    BY DEF ProgramsInit, Idle
  <2>2. CASE program \in LedPrograms
    <3>1. LedBoot
      BY <2>2, LedProgramsApart DEF ProgramsInit
    <3>2. QED
      BY <2>1, <2>2, <3>1, LedStarts
  <2>3. QED
    BY <2>1, <2>2 DEF LedInv
<1>2. LedInv /\ [ProgramsNext]_programVars => LedInv'
  <2> SUFFICES ASSUME LedInv, [ProgramsNext]_programVars
               PROVE  LedInv'
    OBVIOUS
  <2>1. CASE LedNext
    BY <2>1, LedKeeps
  <2>2. CASE /\ UNCHANGED <<program, thread, object, timer, lamp, history>>
             /\ program \in LedPrograms => UNCHANGED kernel
    BY <2>2, LedAlone
  <2>3. QED
    BY <2>1, <2>2, LedProgramsApart DEF ProgramsNext, programVars, TickerNext, RegulatorNext,
      RestartNext, ledOnly, Alone
<1> QED
  BY <1>1, <1>2, PTL DEF ProgramsSpec

\* However slow a step of a thread is, and however long a second: no event, message or
\* signal of an LED program is lost, but a signal of ratemon_cond_server.
THEOREM NothingIsLost == ProgramsSpec => []NothingLost
<1>1. LedInv => NothingLost
  BY LedLosesNothing
<1> QED
  BY <1>1, LedInvHolds, PTL

\* However slow a step of a thread is, no program drives the LED to the state it is in;
\* in timer unless an interrupt came upon a change, and in timer_server if no step takes
\* a second: else its first timer would be served again before the second is set.
THEOREM LedAlwaysAlternates ==
  ProgramsSpec => []((program = "timer_server" => Prompt) => Alternates)
<1>1. LedInv => ((program = "timer_server" => Prompt) => Alternates)
  BY LedAlternates
<1> QED
  BY <1>1, LedInvHolds, PTL

-----------------------------------------------------------------------------
(* The regulator.                                                          *)

LEMMA RegulatorPrograms ==
  /\ "regulator" \notin LedPrograms /\ "regulator" \notin TickerPrograms
  /\ "regulator" # "psx_task_restart" /\ "regulator" \notin Alone
  BY DEF LedPrograms, Text, TickerPrograms, Body, Alone

LEMMA RegulatorInvHolds == ProgramsSpec => []RegulatorInv
<1>1. ProgramsInit => RegulatorInv
  <2> SUFFICES ASSUME ProgramsInit PROVE RegulatorInv
    OBVIOUS
  <2>1. RegulatorIdle
    BY DEF ProgramsInit, Idle
  <2>2. CASE program = "regulator"
    <3>1. RegulatorBoot
      BY <2>2, RegulatorPrograms DEF ProgramsInit
    <3>2. QED
      BY <2>1, <2>2, <3>1, RegulatorStarts DEF RegulatorInv
  <2>3. QED
    BY <2>1, <2>2 DEF RegulatorInv
<1>2. RegulatorInv /\ [ProgramsNext]_programVars => RegulatorInv'
  <2> SUFFICES ASSUME RegulatorInv, [ProgramsNext]_programVars
               PROVE  RegulatorInv'
    OBVIOUS
  <2>1. CASE RegulatorNext
    BY <2>1, RegulatorKeeps
  <2>2. CASE UNCHANGED <<program, stock, sender>> /\ (program = "regulator" => UNCHANGED kernel)
    BY <2>2, RegulatorAlone
  <2>3. QED
    BY <2>1, <2>2, RegulatorPrograms DEF ProgramsNext, programVars, LedNext, TickerNext, RestartNext,
      regulatorOnly
<1> QED
  BY <1>1, <1>2, PTL DEF ProgramsSpec

\* No buffer of the regulator program is lost, and no message, however slow a step of a
\* thread is.  Its task always finds a buffer when seven steps of the delivery thread,
\* which the task preempts, take less time than the task sleeps.
THEOREM BuffersAlwaysSuffice ==
  ProgramsSpec => [](Conserved /\ (RegulatorPrompt => BuffersSuffice))
<1>1. RegulatorInv => Conserved /\ (RegulatorPrompt => BuffersSuffice)
  BY RegulatorInvSuffices
<1> QED
  BY <1>1, RegulatorInvHolds, PTL

-----------------------------------------------------------------------------
(* The user driver.                                                        *)

\* Beyond its place in the program: the name is registered, unless the driver was not
\* initialized or the system stopped on it.
DriverInv ==
  /\ DriverTypeOK /\ DriverServes
  /\ ~initialized => ~registered /\ doing = "initialize"
  /\ doing \notin {"initialize", "fatal error"} => registered
  /\ doing = "initialize" /\ initialized => registered

LEMMA DriverInvHolds == ProgramsSpec => []DriverInv
<1>1. ProgramsInit => DriverInv
  <2> SUFFICES ASSUME DriverIdle PROVE DriverInv
    BY DEF ProgramsInit, Idle
  <2>1. rw_count \in 0 .. InputLength /\ bytes_moved \in 0 .. InputLength /\ bytes_moved <= rw_count
    BY DEF DriverIdle, InputLength
  <2> QED
    BY <2>1 DEF DriverIdle, DriverInv, DriverTypeOK, DriverServes
<1>2. DriverInv /\ [ProgramsNext]_programVars => DriverInv'
  <2> SUFFICES ASSUME DriverInv, [ProgramsNext]_programVars
               PROVE  DriverInv'
    OBVIOUS
  <2> USE DEF DriverInv, DriverTypeOK, DriverServes
  <2>1. CASE userdrv_initialize
    BY <2>1 DEF userdrv_initialize, Registers
  <2>2. CASE Started
    BY <2>2 DEF Started, driver
  <2>3. CASE userdrv_open
    BY <2>3 DEF userdrv_open, OrFails, driver
  <2>4. CASE userdrv_write
    BY <2>4 DEF userdrv_write, OrFails, ToWrite, InputLength
  <2>5. CASE userdrv_read
    BY <2>5 DEF userdrv_read, OutLength, InputLength
  <2>6. CASE userdrv_control
    BY <2>6 DEF userdrv_control, OrFails, driver
  <2>7. CASE userdrv_close
    BY <2>7 DEF userdrv_close, driver
  <2>8. CASE UNCHANGED driverVars
    BY <2>8 DEF driverVars, driver
  <2> QED
    BY <2>1, <2>2, <2>3, <2>4, <2>5, <2>6, <2>7, <2>8, DriverSteps DEF DriverNext
<1> QED
  BY <1>1, <1>2, PTL DEF ProgramsSpec

\* However often the driver's initialize entry is called, it stops the system only if
\* the name could not be registered, and the program that uses it fails no assertion.
THEOREM DriverAlwaysServes == ProgramsSpec => []DriverServes
  BY DriverInvHolds, PTL DEF DriverInv

-----------------------------------------------------------------------------
(* The diagnostics.                                                        *)

\* Once the loop is left the result is what the last key stands for; it is in the
\* environment from mon_setenv on.
ResultInv ==
  /\ DiagnosticsTypeOK
  /\ at \in {"connect", "getargv", "ask", "poll", "fetch", "echo"} =>
       DIAGNOSTICS_RESULT = "unset"
  /\ at = "set" => key \in DOMAIN Results /\ result = Results[key]
                   /\ DIAGNOSTICS_RESULT = "unset"
  /\ at \in {"get", "tell", "returned"} => DIAGNOSTICS_RESULT # "unset"
  /\ DIAGNOSTICS_RESULT # "unset" => key \in DOMAIN Results
                                     /\ DIAGNOSTICS_RESULT = Results[key]

LEMMA ResultsAre ==
  /\ DOMAIN Results = {"p", "f", "u"}
  /\ Results["p"] = "PASS" /\ Results["f"] = "FAIL" /\ Results["u"] = "UNKNOWN"
  BY DEF Results

LEMMA ResultInvHolds == ProgramsSpec => []ResultInv
<1>1. ProgramsInit => ResultInv
  BY DEF ProgramsInit, Idle, DiagnosticsIdle, ResultInv, DiagnosticsTypeOK
<1>2. ResultInv /\ [ProgramsNext]_programVars => ResultInv'
  <2> SUFFICES ASSUME ResultInv, [ProgramsNext]_programVars
               PROVE  ResultInv'
    OBVIOUS
  <2> USE DEF ResultInv, DiagnosticsTypeOK, Calls, diagnostics
  <2>1. CASE Cstart
    BY <2>1 DEF Cstart
  <2>2. CASE Greet
    BY <2>2 DEF Greet
  <2>3. CASE getakey
    BY <2>3 DEF getakey
  <2>4. CASE Judge
    BY <2>4, ResultsAre DEF Judge
  <2>5. CASE SetResult
    BY <2>5, ResultsAre DEF SetResult
  <2>6. CASE Report
    BY <2>6 DEF Report
  <2>7. CASE UNCHANGED diagnosticsVars
    BY <2>7 DEF diagnosticsVars
  <2> QED
    BY <2>1, <2>2, <2>3, <2>4, <2>5, <2>6, <2>7, DiagnosticsSteps DEF DiagnosticsNext
<1> QED
  BY <1>1, <1>2, PTL DEF ProgramsSpec

\* Whatever functions the monitor lacks: DIAGNOSTICS_RESULT is unset or what the user
\* asked for, and it is set when main returns.
THEOREM ResultIsAlwaysTheUsers == ProgramsSpec => []ResultIsTheUsers
<1>1. ResultInv => ResultIsTheUsers
  BY DEF ResultInv, ResultIsTheUsers
<1> QED
  BY <1>1, ResultInvHolds, PTL

-----------------------------------------------------------------------------
(* Types.                                                                  *)

\* What the clock of a ticker shows, and what its tasks do next.
TickerInv ==
  /\ seconds \in 0 .. 60 /\ over \in BOOLEAN
  /\ call \in [TickerThreads -> {"look", "sleep", "period", "return"}]

LEMMA CallsAre ==
  ASSUME program \in TickerPrograms, NEW n \in 1 .. 2
  PROVE  Body[program].calls[n] \in {"look", "sleep", "period"}
<1>1. Body[program] \in {Ticker, LowTicker1, LowTicker2}
  BY DEF TickerPrograms, Body, TickerStackchk, TickerTrace, LowTicker, User_Thread
<1>2. Body[program].calls \in {<<"look", "sleep">>, <<"period", "look">>}
  <2>1. Ticker.calls = <<"look", "sleep">>
    BY DEF Ticker
  <2>2. LowTicker1.calls = <<"period", "look">>
    BY DEF LowTicker1
  <2>3. LowTicker2.calls = <<"look", "sleep">>
    BY DEF LowTicker2
  <2> QED
    BY <1>1, <2>1, <2>2, <2>3, Zenon
<1>3. n = 1 \/ n = 2
  OBVIOUS
<1>4. CASE Body[program].calls = <<"look", "sleep">>
  BY <1>3, <1>4
<1>5. CASE Body[program].calls = <<"period", "look">>
  BY <1>3, <1>5
<1> QED
  BY <1>2, <1>4, <1>5

LEMMA NextCallTyped ==
  ASSUME TickerInv, program \in TickerPrograms, NEW t \in TickerTasks, NextCall(t)
  PROVE  call' \in [TickerThreads -> {"look", "sleep", "period", "return"}]
<1>1. PICK n \in 1 .. 2 : call' = [call EXCEPT ![t] = Body[program].calls[3 - n]]
  BY DEF NextCall
<1>2. Body[program].calls[3 - n] \in {"look", "sleep", "period"}
  <2>1. 3 - n \in 1 .. 2
    OBVIOUS
  <2> QED
    BY <2>1, CallsAre
<1>3. t \in TickerThreads
  BY DEF TickerThreads
<1> QED
  BY <1>1, <1>2, <1>3 DEF TickerInv

LEMMA TickerKeeps ==
  ASSUME TickerInv, TickerNext
  PROVE  TickerInv'
<1>1. program \in TickerPrograms
  BY DEF TickerNext
<1>2. CASE Second
  <2>1. \/ seconds' = (seconds + 1) % 60
        \/ seconds' = seconds + 1 /\ seconds < 60
        \/ seconds' = seconds
    BY <1>2, Zenon DEF Second
  <2>2. seconds' \in 0 .. 60
    <3>1. seconds \in 0 .. 60
      BY DEF TickerInv
    <3> QED
      BY <2>1, <3>1
  <2>3. UNCHANGED <<call, over>>
    BY <1>2 DEF Second, tickerTask
  <2> QED
    BY <2>2, <2>3 DEF TickerInv
<1>3. ASSUME NEW t \in TickerTasks, Look(t) \/ WakeAfter(t) \/ WaitPeriod(t) \/ TickerWakes(t)
      PROVE  TickerInv'
  <2>1. seconds' = seconds /\ over' \in BOOLEAN /\ (call' = call \/ NextCall(t))
    BY <1>3, Zenon DEF Look, WakeAfter, WaitPeriod, TickerWakes, tickerTask, TickerInv
  <2>2. call' \in [TickerThreads -> {"look", "sleep", "period", "return"}]
    BY <1>1, <2>1, NextCallTyped DEF TickerInv
  <2> QED
    BY <2>1, <2>2 DEF TickerInv
<1>4. CASE MainSleeps
  BY <1>4 DEF MainSleeps, TickerInv, TickerThreads
<1>5. CASE MainReturns
  <2>1. seconds' = seconds /\ call' = call /\ over' \in BOOLEAN
    BY <1>5, Zenon DEF MainReturns
  <2> QED
    BY <2>1, Zenon DEF TickerInv
<1>6. CASE MainWakes
  BY <1>6, Zenon DEF MainWakes, tickerTask, TickerInv
<1> QED
  BY <1>2, <1>3, <1>4, <1>5, <1>6 DEF TickerNext

LEMMA TickerTyped == ProgramsSpec => []TickerTypeOK
<1>1. ProgramsInit => TickerInv
  <2> SUFFICES ASSUME ProgramsInit PROVE TickerInv
    OBVIOUS
  <2>1. seconds = 0 /\ over = FALSE /\ call = [t \in TickerThreads |-> FirstCall(t)]
    BY DEF ProgramsInit, Idle, TickerIdle
  <2>2. \A t \in TickerThreads : FirstCall(t) \in {"look", "sleep", "period", "return"}
    BY CallsAre DEF FirstCall
  <2>3. call \in [TickerThreads -> {"look", "sleep", "period", "return"}]
    BY <2>1, <2>2, Zenon
  <2>4. seconds \in 0 .. 60 /\ over \in BOOLEAN
    <3>1. 0 \in 0 .. 60
      OBVIOUS
    <3> QED
      BY <2>1, <3>1, Zenon
  <2> QED
    BY <2>3, <2>4, Zenon DEF TickerInv
<1>2. TickerInv /\ [ProgramsNext]_programVars => TickerInv'
  <2> SUFFICES ASSUME TickerInv, [ProgramsNext]_programVars
               PROVE  TickerInv'
    OBVIOUS
  <2>1. TickerNext \/ UNCHANGED tickerOnly
    BY DEF ProgramsNext, programVars
  <2>2. CASE UNCHANGED tickerOnly
    BY <2>2 DEF tickerOnly, tickerTask, TickerInv
  <2> QED
    BY <2>1, <2>2, TickerKeeps
<1>3. TickerInv => TickerTypeOK
  BY DEF TickerInv, TickerTypeOK
<1> QED
  BY <1>1, <1>2, <1>3, PTL DEF ProgramsSpec

LEMMA RestartTyped == ProgramsSpec => []RestartTypeOK
<1>1. ProgramsInit => RestartTypeOK
  <2>1. ASSUME RestartIdle PROVE RestartTypeOK
    <3>1. arg = 0 /\ pending = FALSE /\ stopped = "no"
      BY <2>1 DEF RestartIdle
    <3>2. 0 \in 0 .. 1
      OBVIOUS
    <3> QED
      BY <3>1, <3>2, Zenon DEF RestartTypeOK
  <2> QED
    BY <2>1, Zenon DEF ProgramsInit, Idle
<1>2. RestartTypeOK /\ [ProgramsNext]_programVars => RestartTypeOK'
  <2> SUFFICES ASSUME RestartTypeOK, [ProgramsNext]_programVars
               PROVE  RestartTypeOK'
    OBVIOUS
  <2>1. RestartNext \/ UNCHANGED restart
    BY DEF ProgramsNext, programVars
  <2>2. CASE RestartNext
    <3>1. arg' \in {arg, 1} /\ pending' \in {pending, TRUE, FALSE} /\ stopped' \in {stopped, "end of test"}
      BY <2>2, Zenon DEF RestartNext, start_health_thread, start_faulting_thread, Receive, Restart,
        Enter, SendHealth, RestartClock, restart
    <3>2. arg' \in 0 .. 1
      <4>1. 1 \in 0 .. 1
        OBVIOUS
      <4> QED
        BY <3>1, <4>1, Zenon DEF RestartTypeOK
    <3>3. pending' \in BOOLEAN /\ stopped' \in {"no", "end of test"}
      BY <3>1, Zenon DEF RestartTypeOK
    <3> QED
      BY <3>2, <3>3 DEF RestartTypeOK
  <2>3. CASE UNCHANGED restart
    BY <2>3 DEF restart, RestartTypeOK
  <2> QED
    BY <2>1, <2>2, <2>3
<1> QED
  BY <1>1, <1>2, PTL DEF ProgramsSpec

LEMMA ProgramStays == ProgramsSpec => [](program \in AllPrograms)
<1>1. program \in AllPrograms /\ [ProgramsNext]_programVars => (program \in AllPrograms)'
  <2>1. ASSUME [ProgramsNext]_programVars PROVE program' = program
    BY <2>1, Zenon DEF ProgramsNext, programVars, LedNext, TickerNext, RegulatorNext, RestartNext
  <2> QED
    BY <2>1, Zenon DEF AllPrograms, LedPrograms, Text, TickerPrograms, Body, Alone
<1>2. ProgramsInit => program \in AllPrograms
  BY DEF ProgramsInit
<1> QED
  BY <1>1, <1>2, PTL DEF ProgramsSpec

\* Whichever program is chosen: the lines of threads, alarms, counters and places of
\* the part that runs stay what they are meant to be, and those of the others idle.
THEOREM ProgramsAreTyped == ProgramsSpec => []ProgramsTypeOK
<1>1. LedInv => (program \in LedPrograms => LedTypeOK)
  BY LedTyped
<1>2. RegulatorInv => RegulatorTypeOK
  BY RegulatorInvSuffices
<1>3. MenuInv => MenuTypeOK
  BY DEF MenuInv
<1>4. DriverInv => DriverTypeOK
  BY DEF DriverInv
<1>5. ResultInv => DiagnosticsTypeOK
  BY DEF ResultInv
<1>6. ASSUME program \in AllPrograms, program \in LedPrograms => LedTypeOK,
             TickerTypeOK, RegulatorTypeOK, RestartTypeOK,
             MenuTypeOK, DriverTypeOK, DiagnosticsTypeOK
      PROVE  ProgramsTypeOK
  BY <1>6, Zenon DEF ProgramsTypeOK
<1> QED
  BY <1>1, <1>2, <1>3, <1>4, <1>5, <1>6, LedInvHolds, TickerTyped, RegulatorInvHolds, RestartTyped,
     ProgramStays, MenuInvHolds, DriverInvHolds, ResultInvHolds, PTL

=============================================================================
