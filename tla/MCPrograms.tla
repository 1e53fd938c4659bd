----------------------------- MODULE MCPrograms -----------------------------
EXTENDS Programs
MCSlow == [p \in AllPrograms |->
  IF p \in {"event_server", "msg_server", "posix_message_server", "sem_server",
            "posix_mutex_server", "posix_cond_server"} THEN 3 ELSE 1]
=============================================================================
