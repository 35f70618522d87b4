------------------------------ MODULE MCLogging ------------------------------
(* Small instances of Logging for TLC.                                     *)
EXTENDS Logging

CONSTANTS t1, t2

TwoThreads == {t1, t2}

MCCalled == {"fatal", "debug"}

To(level, console, output) ==
  [level |-> level, console |-> console, output |-> output]

MCSettings ==
  {To("dev", FALSE, TRUE), To("debug", FALSE, TRUE), To("fatal", FALSE, TRUE),
   To("warn", TRUE, FALSE), To("error", FALSE, FALSE)}

(* A server that logs nothing.                                             *)
Silent == {To("info", FALSE, FALSE)}

(* The console and the log file at once.                                   *)
Both == {To(l, TRUE, TRUE) : l \in {"trace", "info", "error"}}
=============================================================================
