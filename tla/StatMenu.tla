------------------------------ MODULE StatMenu ------------------------------
(***************************************************************************)
(* The menus of led/complex1 (menu.cc, test.cc): the questions the user is *)
(* asked, and the table of the files he can pick one from.  What the LED   *)
(* server and the periodic threads are told is in their own modules.       *)
(***************************************************************************)
EXTENDS Integers

CONSTANT MaxFiles      \* MAX_FILES_IN_MENU

ASSUME MenuAssumption == MaxFiles \in Nat \ {0, 1}

VARIABLES
  asked,       \* the question that is asked, or how the program stopped
  Message,     \* the line in the buffer, Unknown before the first is read
  atEnd,       \* is stdin at its end?
  FileNamesLoaded, FileCount,
  sorted,      \* are the names after the first sorted?
  leftOpen,    \* is the directory left open?
  failure      \* what LoadDirectoryMenu failed on: "none", "open", "too many"

Unknown == -3

files == <<FileNamesLoaded, FileCount, sorted, leftOpen, failure>>
menuVars == <<asked, Message, atEnd, files>>

MenuIdle ==
  /\ asked = "main" /\ Message = Unknown /\ atEnd = FALSE
  /\ FileNamesLoaded = FALSE /\ FileCount = 0
  /\ sorted = FALSE /\ leftOpen = FALSE /\ failure = "none"

\* The greatest number that answers a question, and the least.  A length in
\* milliseconds stands for 1 to 10000, the number of threads for 1 to 100.
Greatest ==
  [main |-> 8, led |-> 3, on |-> 2, off |-> 2, threads |-> 3, number |-> 2,
   stat |-> FileCount - 1]
Least == [q \in DOMAIN Greatest |-> IF q \in {"on", "off", "number"} THEN 1 ELSE 0]
Questions == DOMAIN Greatest

\* A line is a number, or something else.
NotANumber == -2
Lines == (-1 .. 9) \cup {NotANumber}

\* Test_menu_Get_int_bounded asserts min <= max, then asks until it gets a number.
Ask(q) ==
  /\ asked' = IF Least[q] <= Greatest[q] THEN q ELSE "assertion failed"
  /\ Message' = Unknown

\* Mutant: the names are not limited to what the table holds.
LoadUnlimited ==
  \E names \in 0 .. MaxFiles + 1 :
    /\ ~FileNamesLoaded /\ FileNamesLoaded' = TRUE
    /\ failure' = failure /\ leftOpen' = leftOpen /\ sorted' = TRUE
    /\ FileCount' = names + 1
    /\ asked' = "stat" /\ Message' = Unknown

OpenFails ==
  /\ ~FileNamesLoaded /\ FileNamesLoaded' = TRUE
  /\ failure' = "open"
  /\ Ask("main")
  /\ UNCHANGED <<FileCount, sorted, leftOpen>>

\* LoadDirectoryMenu is only ever called by statFile.  Of the names in a directory the
\* number matters.
LoadNames ==
  \E names \in 0 .. MaxFiles + 1 :
    /\ ~FileNamesLoaded /\ FileNamesLoaded' = TRUE
    /\ IF names + 1 < MaxFiles
         THEN /\ FileCount' = names + 1 /\ sorted' = TRUE
              /\ asked' = "stat" /\ Message' = Unknown
              /\ UNCHANGED <<leftOpen, failure>>
         ELSE /\ FileCount' = MaxFiles /\ leftOpen' = TRUE /\ failure' = "too many"
              /\ Ask("main")
              /\ sorted' = sorted

AlreadyLoaded ==
  /\ FileNamesLoaded
  /\ Ask("stat")
  /\ UNCHANGED files

statFile == OpenFails \/ LoadNames \/ AlreadyLoaded

\* What follows the answer n to question q: Test_menu_run asks again after a routine,
\* and leaves the menu on 0.
After(q, n) ==
  CASE q = "main" /\ n = 0 -> "done"
    [] q = "main" /\ n = 1 -> "led"
    [] q = "main" /\ n = 3 -> "threads"
    [] q = "led" /\ n = 3 -> "on"
    [] q = "on" -> "off"
    [] q = "off" -> "led"
    [] q = "threads" /\ n = 3 -> "number"
    [] q = "number" -> "threads"
    [] q \in {"led", "threads"} /\ n = 0 -> "main"
    [] q = "stat" -> "main"
    [] OTHER -> q

Follow(q, n) ==
  IF q = "main" /\ n = 2 THEN statFile
  ELSE /\ IF After(q, n) = "done" THEN asked' = "done" /\ Message' = Unknown
                                  ELSE Ask(After(q, n))
       /\ UNCHANGED files

\* Is the line an answer?
Valid(q, line) == line \in Least[q] .. Greatest[q]

\* Mutant: fgets fills the buffer at the end of the input too.
LineAnew(line) == atEnd' \in {atEnd, TRUE}

\* The result of fgets is not looked at: at the end of the input the line is what the
\* buffer held before, which is unknown for the first.
Line(line) ==
  \/ ~atEnd /\ atEnd' = FALSE
  \/ atEnd' = TRUE /\ Message \in {Unknown, line}

Answer ==
  /\ asked \in Questions
  /\ \E line \in Lines :
       /\ Line(line)
       /\ IF Valid(asked, line)
            THEN Follow(asked, line)
            ELSE Message' = line /\ UNCHANGED <<asked, files>>

-----------------------------------------------------------------------------
\* Type correctness.
MenuTypeOK ==
  /\ asked \in Questions \cup {"done", "assertion failed"}
  /\ Message \in Lines \cup {Unknown}
  /\ FileCount \in 0 .. MaxFiles
  /\ FileNamesLoaded \in BOOLEAN /\ sorted \in BOOLEAN /\ leftOpen \in BOOLEAN
  /\ atEnd \in BOOLEAN
  /\ failure \in {"none", "open", "too many"}

\* The table is read once and never overrun.  The user picks from a table that is
\* not empty, and sorted unless it was reported as too large before; the assertion
\* on the bounds of the answer only fails after the directory could not be opened.
FilesOffered ==
  /\ FileCount <= MaxFiles
  /\ asked = "stat" => FileCount > 0 /\ (sorted \/ failure = "too many")
  /\ asked = "assertion failed" => failure = "open"
  /\ leftOpen => failure = "too many"

\* Once the input has ended with a line that is no answer, the question is asked for
\* ever.
StuckAtEnd ==
  [][atEnd /\ asked \in Questions /\ Message # Unknown => asked' = asked]_menuVars
==============================================================================
