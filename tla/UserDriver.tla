----------------------------- MODULE UserDriver -----------------------------
(***************************************************************************)
(* misc/userdrv: a driver, and a program that opens it, writes, reads,     *)
(* controls and closes it.  Of the data only the lengths are kept.         *)
(***************************************************************************)
EXTENDS Naturals

VARIABLES
  initialized,     \* has the driver's initialize entry been called?
  registered,      \* is the device's name known?
  doing,           \* what main does next, or how the program stopped
  is_open,
  rw_count,        \* the rw_args of the last call
  bytes_moved

driver == <<initialized, registered, rw_count, bytes_moved>>
driverVars == <<driver, doing, is_open>>

USERDRV_IOCTL_DO_SOMETHING == 3276801
InputLength == 80                     \* of inbuf
ToWrite == 38                         \* of string_to_write
OutLength == 15                       \* of outstr, with its terminator

DriverIdle ==
  /\ initialized = FALSE /\ registered = FALSE
  /\ doing = "initialize" /\ is_open = FALSE /\ rw_count = 0 /\ bytes_moved = 0

\* rtems_io_register_name: a name can be registered once, if there is room for it.
Registers(next) ==
  \/ ~registered /\ registered' = TRUE /\ doing' = next
  \/ registered' = registered /\ doing' = "fatal error"

\* Mutant: the entry does not know that it was called before.
InitializeAgain ==
  /\ doing = "initialize"
  /\ initialized' = TRUE
  /\ Registers(doing)
  /\ UNCHANGED <<is_open, rw_count, bytes_moved>>

\* The entry is called while RTEMS starts, for each place of the driver's table in the
\* configuration.
userdrv_initialize ==
  /\ doing = "initialize"
  /\ initialized' = TRUE
  /\ IF initialized THEN UNCHANGED <<registered, doing>> ELSE Registers(doing)
  /\ UNCHANGED <<is_open, rw_count, bytes_moved>>

Started ==
  /\ doing = "initialize" /\ initialized
  /\ doing' = "open"
  /\ UNCHANGED <<driver, is_open>>

OrFails(ok, next) == doing' = IF ok THEN next ELSE "assertion failed"

userdrv_open ==
  /\ doing = "open"
  /\ is_open' = registered /\ OrFails(registered, "write")
  /\ UNCHANGED driver

userdrv_write ==
  /\ doing = "write"
  /\ rw_count' = ToWrite /\ bytes_moved' = rw_count'
  /\ OrFails(bytes_moved' = ToWrite, "read")
  /\ UNCHANGED <<initialized, registered, is_open>>

\* The count is printed, not looked at.
userdrv_read ==
  /\ doing = "read"
  /\ rw_count' = InputLength /\ bytes_moved' = OutLength
  /\ doing' = "control"
  /\ UNCHANGED <<initialized, registered, is_open>>

userdrv_control ==
  /\ doing = "control"
  /\ LET command == USERDRV_IOCTL_DO_SOMETHING
     IN  OrFails(command = USERDRV_IOCTL_DO_SOMETHING, "close")
  /\ UNCHANGED <<driver, is_open>>

userdrv_close ==
  /\ doing = "close"
  /\ is_open' = FALSE /\ doing' = "done"
  /\ UNCHANGED driver

DriverNext ==
  \/ userdrv_initialize \/ Started \/ userdrv_open \/ userdrv_write \/ userdrv_read
  \/ userdrv_control \/ userdrv_close

-----------------------------------------------------------------------------
\* Type correctness.
DriverTypeOK ==
  /\ initialized \in BOOLEAN /\ registered \in BOOLEAN /\ is_open \in BOOLEAN
  /\ rw_count \in 0 .. InputLength /\ bytes_moved \in 0 .. InputLength

\* The driver may be initialized again without harm: it stops the system only if its
\* name could not be registered.  Once it is, no assertion of the program fails, and
\* what the driver says it moved is never more than was asked for.
DriverServes ==
  /\ doing = "fatal error" => ~registered
  /\ doing # "assertion failed" /\ bytes_moved <= rw_count
  /\ is_open => registered
==============================================================================
