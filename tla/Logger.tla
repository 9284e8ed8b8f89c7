------------------------------- MODULE Logger -------------------------------
(***************************************************************************)
(* The log file and its cycle.  A file name is the part of the date that   *)
(* the cycle period puts in it.                                            *)
(***************************************************************************)
EXTENDS Integers, Sequences

CONSTANTS LastDay,              \* the dates of the model are 0 .. LastDay
          Year, Month, Week     \* their calendar: day -> number (Week is the ISO week)

Day == 0 .. LastDay

ASSUME LoggerAssumption == LastDay \in Nat /\ {Year, Month, Week} \subseteq [Day -> Nat]

NoFile == <<-1>>                \* no name yet, or no file open

\* logFileName and the file that is open, if any.
Logger == [name : Seq(Int), file : Seq(Int)]
ClosedLog == [name |-> NoFile, file |-> NoFile]

\* A cycle setting that is not in the table of names means "never".
LogName(cycle, day) ==
    CASE cycle = "yearly"  -> <<Year[day]>>
      [] cycle = "monthly" -> <<Year[day], Month[day]>>
      [] cycle = "weekly"  -> <<Year[day], Week[day]>>
      [] cycle = "daily"   -> <<Year[day], Month[day], day>>
      [] OTHER             -> << >>

\* Faulty variant: the new file is opened before the old one is closed, which
\* openLogFile refuses.
CycleOpensFirst(log, name, opened) ==
    IF log.name = name THEN log
    ELSE [name |-> name, file |-> IF log.file # NoFile THEN log.file
                                  ELSE IF opened THEN name ELSE NoFile]

\* cycleLogFile: the name changes also when the file cannot be opened.
CycleLogFile(log, name, opened) ==
    IF log.name = name THEN log ELSE [name |-> name, file |-> IF opened THEN name ELSE NoFile]
=============================================================================
