---------------------------- MODULE LocalConfig ----------------------------
(* rtmpg.conf as agora_init reads it for every session.  A file is a       *)
(* sequence of lines, a line a sequence of pieces (white space is removed  *)
(* first): a key, "=", "//", or other text.  A number is one piece.        *)
EXTENDS Integers, Sequences, SequencesExt

CONSTANT Numbers   \* the texts in use that spell a number, and the number

Numeric == {"jb-initial-size-ms", "jb-max-size-ms",
            "Jb-max-doubles-if-emptied-within-seconds", "qmin", "qmax"}
Flags   == {"detailed-video-log", "detailed-audio-log", "fps-log",
            "speedup-log", "dump-raw-audio-to-file"}

InitialDefault == 120
InitialLargest == 8000

\* The constructor.
Default == [key \in Numeric \cup Flags |->
              CASE key = "jb-initial-size-ms" -> InitialDefault
                [] key = "jb-max-size-ms" -> 8000
                [] key = "Jb-max-doubles-if-emptied-within-seconds" -> 15
                [] key \in {"qmin", "qmax"} -> 0
                [] OTHER -> FALSE]

\* std::atoi, and the type of what it is assigned to: uint16_t but for the
\* encoder's two.
Atoi(value) == IF value # <<>> /\ Head(value) \in DOMAIN Numbers
               THEN Numbers[Head(value)] ELSE 0
Stored(key, number) ==
  IF key \in {"qmin", "qmax"} THEN number ELSE number % 65536

\* prepareLine: what stands before the first "//".
Uncommented(line) ==
  LET at == SelectInSeq(line, LAMBDA p : p = "//")
  IN  IF at = 0 THEN line ELSE SubSeq(line, 1, at - 1)

Blank(line)     == Uncommented(line) = <<>>
Equals(line)    == SelectInSeq(Uncommented(line), LAMBDA p : p = "=")
Malformed(line) == ~Blank(line) /\ Equals(line) = 0
KeyOf(line)     == SubSeq(Uncommented(line), 1, Equals(line) - 1)
ValueOf(line)   == SubSeq(Uncommented(line), Equals(line) + 1,
                          Len(Uncommented(line)))
Sets(line, key) == ~Blank(line) /\ ~Malformed(line) /\ KeyOf(line) = <<key>>

\* What a line makes of a setting.  A flag is only ever raised.
ApplyLine(key, setting, line) ==
  IF ~Sets(line, key)   THEN setting
  ELSE IF key \in Flags THEN setting \/ ValueOf(line) = <<"yes">>
  ELSE Stored(key, Atoi(ValueOf(line)))

\* The lines read: up to the first malformed one, which ends the reading.
Readable(file) ==
  LET at == SelectInSeq(file, Malformed)
  IN  IF at = 0 THEN file ELSE SubSeq(file, 1, at - 1)

\* Mutant of Validate: the largest size is refused too.
ValidateBelow(settings) ==
  IF settings["jb-initial-size-ms"] >= InitialLargest
  THEN [settings EXCEPT !["jb-initial-size-ms"] = InitialDefault]
  ELSE settings

\* The initial size is an unsigned number: only its upper bound can fail.
Validate(settings) ==
  IF settings["jb-initial-size-ms"] > InitialLargest
  THEN [settings EXCEPT !["jb-initial-size-ms"] = InitialDefault]
  ELSE settings

\* What the lines read, one after the other, make of a setting.
Setting(key, file) ==
  FoldLeft(LAMBDA setting, line : ApplyLine(key, setting, line),
           Default[key], Readable(file))

\* Only a file that is read to its end is validated.
ReadConfig(file) ==
  LET settings == [key \in Numeric \cup Flags |-> Setting(key, file)]
  IN  IF Readable(file) = file THEN Validate(settings) ELSE settings
=============================================================================
