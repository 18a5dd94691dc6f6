------------------------------- MODULE Parsers -------------------------------
(***************************************************************************)
(* NetworkSession::parse_and_push() and parse_and_push_simd(): the text of *)
(* a log is cut at its first three blanks into time, level, id and message,*)
(* and the first three are validated, the time against a cached clock.     *)
(*                                                                         *)
(* Characters are one-character strings; the positions of a line are those *)
(* of a sequence, one more than the offsets of the code.  A parser returns *)
(* the entry it pushes; what it does to shared memory is in Ingest.        *)
(*                                                                         *)
(* call is history: the last line parsed, where it lay, what the cached    *)
(* clock was and what the system clock.                                    *)
(***************************************************************************)
EXTENDS Bits, SequencesExt

CONSTANTS Lines,        \* the lines clients send
          Places,       \* addresses a line may start at
          PageSize,     \* 4096
          VectorWidth,  \* 32, the bytes of a __m256i
          SimdSize,     \* 64, the least size for the vector path
          TimeRange,    \* 2^64
          IdRange,      \* 2^32
          Window,       \* 5 seconds
          MaxLag,       \* the most seconds the cached clock is behind
          Libraries,    \* "scan", "abort": the libraries it may be built with
          FirstTime, LastTime   \* bounds on the system clock

ASSUME LinesAssumption == Lines \subseteq Seq(STRING)
ASSUME ClockAssumption ==
  /\ Window \in Nat /\ MaxLag \in 0 .. Window
  /\ FirstTime \in Nat /\ LastTime \in Nat /\ TimeRange \in Nat /\ IdRange \in Nat
  /\ Window <= FirstTime /\ FirstTime <= LastTime /\ LastTime + Window < TimeRange
  /\ 4 < TimeRange   \* the range of a level, too
ASSUME VectorAssumption ==
  VectorWidth \in Nat /\ VectorWidth <= SimdSize /\ SimdSize <= PageSize

VARIABLES now,        \* the system clock, in seconds
          unix_time,  \* Tools::Time, the cached clock
          processor,  \* "AVX2" or "plain": what GetBestParser() finds
          inverted,   \* what from_chars does with a range that ends before it begins
          call, entry

parserVars == <<now, unix_time, processor, inverted, call, entry>>

----------------------------------------------------------------------------
(* std::from_chars for an unsigned type: digits from first on, up to last. *)
(* The loop of the library tests for equality with last, so a range that   *)
(* ends before it begins is read up to the first other character.          *)

Blank  == " "
Digits == <<"0", "1", "2", "3", "4", "5", "6", "7", "8", "9">>
IsDigit(c) == c \in Range(Digits)
Value(c) == CHOOSE v \in 0 .. 9 : Digits[v + 1] = c

Number(s) ==
  LET upto[n \in 0 .. Len(s)] == IF n = 0 THEN 0 ELSE 10 * upto[n - 1] + Value(s[n])
  IN upto[Len(s)]

FromChars(line, first, last, limit) ==
  LET stop == Min({p \in first .. Len(line) + 1 :
                     p = last \/ p > Len(line) \/ ~ IsDigit(line[p])})
      number == Number(SubSeq(line, first, stop - 1))
  IN [stop |-> stop, value |-> number, ok |-> first < stop /\ number < limit]

(* struct CheckLogEntry.  CurrentTime - 5 is unsigned.                     *)
ValidTimestampMutant(t, clock) == t <= ((clock + Window) % TimeRange)
ValidTimestamp(t, clock) ==
  ((clock - Window) % TimeRange) <= t /\ t <= ((clock + Window) % TimeRange)
ValidLevel(level) == level \in 0 .. 4
ValidID(id) == id \in 1 .. IdRange - 1

Rejected == [verdict |-> "rejected"]   \* the session is disconnected
Aborted  == [verdict |-> "aborted"]    \* the library ends the process
Message(line, p) == SubSeq(line, p, Len(line))
Pushed(time, level, id, message) ==
  [verdict |-> "pushed", time |-> time, level |-> level, id |-> id, message |-> message]

----------------------------------------------------------------------------
(* parse_and_push(): each number must end at a blank.                      *)

Delimited(line, n) == n.ok /\ n.stop <= Len(line) /\ line[n.stop] = Blank

Scalar(line, clock) ==
  LET end   == Len(line) + 1
      time  == FromChars(line, 1, end, TimeRange)
      level == FromChars(line, time.stop + 1, end, TimeRange)
      id    == FromChars(line, level.stop + 1, end, IdRange)
  IN IF /\ Delimited(line, time) /\ ValidTimestamp(time.value, clock)
        /\ Delimited(line, level) /\ ValidLevel(level.value)
        /\ Delimited(line, id) /\ ValidID(id.value)
       THEN Pushed(time.value, level.value, id.value, Message(line, id.stop + 1))
       ELSE Rejected

(* parse_and_push_simd(): the blanks are the bits of mask, and the numbers *)
(* are read between them.  _tzcnt_u32(0) is the width.                     *)

Blanks(line) == {p \in 1 .. Min({VectorWidth, Len(line)}) : line[p] = Blank}
Mask(line)   ==
  LET upto[n \in Nat] ==
        IF n = 0 THEN 0
        ELSE upto[n - 1] + (IF n \in Blanks(line) THEN Pow2[n - 1] ELSE 0)
  IN upto[VectorWidth]

Tzcnt(x)   == Min({b \in 0 .. VectorWidth : b = VectorWidth \/ (x \div Pow2[b]) % 2 = 1})
Both(x, y) == And[VectorWidth][x][y]

SeparatorsMutant(mask) ==
  <<Tzcnt(mask), Tzcnt(mask), Tzcnt(Both(Both(mask, mask - 1), mask - 2))>>
LastSeparatorMutant(mask) ==
  <<Tzcnt(mask), Tzcnt(Both(mask, mask - 1)),
    Max({b \in 0 .. VectorWidth - 1 : (mask \div Pow2[b]) % 2 = 1})>>
Separators(mask) ==
  <<Tzcnt(mask), Tzcnt(Both(mask, mask - 1)), Tzcnt(Both(Both(mask, mask - 1), mask - 2))>>

Simd(line, clock) ==
  LET p     == [i \in 1 .. 3 |-> Separators(Mask(line))[i] + 1]
      time  == FromChars(line, 1, p[1], TimeRange)
      level == FromChars(line, p[1] + 1, p[2], TimeRange)
      id    == FromChars(line, p[2] + 1, p[3], IdRange)
  IN IF ~ (time.ok /\ ValidTimestamp(time.value, clock)) THEN Rejected
     ELSE IF ~ (level.ok /\ ValidLevel(level.value)) THEN Rejected
     ELSE IF p[3] < p[2] + 1 /\ inverted = "abort" THEN Aborted
     ELSE IF ~ (id.ok /\ ValidID(id.value)) THEN Rejected
     ELSE Pushed(time.value, level.value, id.value, Message(line, p[3] + 1))

(* The vector path is for lines that are long enough, lie clear of the end *)
(* of a page and have three blanks early on.                               *)
Vectorizable(line, place) ==
  /\ Len(line) >= SimdSize /\ (place % PageSize) + SimdSize <= PageSize
  /\ Cardinality(Blanks(line)) >= 3

CurrentParser(line, place, clock) ==
  IF processor = "AVX2" /\ Vectorizable(line, place) THEN Simd(line, clock)
                                                     ELSE Scalar(line, clock)

----------------------------------------------------------------------------
(* start_threads() sets the cached clock before it starts anything.        *)
ParsersInitMutant ==
  /\ now = FirstTime /\ unix_time = 0
  /\ processor \in {"AVX2", "plain"} /\ inverted \in Libraries
  /\ call = [line |-> << >>, place |-> 0, clock |-> 0, now |-> now] /\ entry = Rejected
ParsersInit ==
  /\ now = FirstTime /\ unix_time = now
  /\ processor \in {"AVX2", "plain"} /\ inverted \in Libraries
  /\ call = [line |-> << >>, place |-> 0, clock |-> unix_time, now |-> now]
  /\ entry = Rejected

(* The time thread runs every millisecond: MaxLag bounds how far a second  *)
(* of the system clock may get ahead of it.                                *)
SecondPasses ==
  /\ now < LastTime /\ now - unix_time < MaxLag
  /\ now' = now + 1
  /\ UNCHANGED <<unix_time, processor, inverted, call, entry>>

UpdateTime ==
  /\ unix_time # now /\ unix_time' = now
  /\ UNCHANGED <<now, processor, inverted, call, entry>>

(* The parsers keep nothing between two lines but the clock, so one line   *)
(* per behaviour, at any time, is enough.                                  *)
Parse(line, place) ==
  /\ call.line = << >>
  /\ entry' = CurrentParser(line, place, unix_time)
  /\ call' = [line |-> line, place |-> place, clock |-> unix_time, now |-> now]
  /\ UNCHANGED <<now, unix_time, processor, inverted>>

ParsersNext == \/ SecondPasses \/ UpdateTime
               \/ \E line \in Lines, place \in Places : Parse(line, place)

ParsersSpec == ParsersInit /\ [][ParsersNext]_parserVars

----------------------------------------------------------------------------
InScalar == Scalar(call.line, call.clock)

(* A log the scalar parser takes is not lost, nor given another time, level*)
(* or id, by the vector parser, wherever in the stash it lies, unless the  *)
(* library ends the process over the range at LogServer.cpp:281.           *)
SameHeader ==
  InScalar.verdict = "pushed" /\ entry # Aborted =>
    /\ entry.verdict = "pushed"
    /\ <<entry.time, entry.level, entry.id>> = <<InScalar.time, InScalar.level, InScalar.id>>

(* Nothing is cut off a message: the vector parser pushes all that is      *)
(* behind the third blank, if more (LogServer.cpp:266, 286).               *)
MessageComplete ==
  InScalar.verdict = "pushed" /\ entry.verdict = "pushed" =>
    IsSuffix(InScalar.message, entry.message)

(* Whichever parser takes it, what is pushed is stamped within five        *)
(* seconds of the system clock, and up to the lag of the cached clock      *)
(* before that, and has a level and an id of their ranges                  *)
(* (LogServer.h:25-62).                                                    *)
PushedIsValid ==
  entry.verdict = "pushed" =>
    /\ entry.time >= call.now - Window - MaxLag
    /\ entry.time <= call.now + Window
    /\ entry.level \in 0 .. 4 /\ entry.id \in 1 .. IdRange - 1

(* A well-formed log that is stamped with the system clock of the moment   *)
(* is taken, from the first one on: no parser ever meets a clock that has  *)
(* not been set (ThreadManager.cpp:40, 56-63).                             *)
WellFormed(line) ==
  \E i, j, k \in 1 .. Len(line) :
    /\ 1 < i /\ i + 2 = j /\ j + 2 <= k
    /\ \A p \in {i, j, k} : line[p] = Blank
    /\ \A p \in (1 .. k) \ {i, j, k} : IsDigit(line[p])
    /\ line[i + 1] \in {"0", "1", "2", "3", "4"} /\ line[j + 1] # "0"
    /\ FromChars(line, j + 1, k, IdRange).ok
    /\ FromChars(line, 1, i, TimeRange).value = call.now
CurrentLogsAccepted == WellFormed(call.line) => entry.verdict # "rejected"

(* A log that one parser takes the other takes as the same entry: the one  *)
(* without AVX2 is a fallback for the other (LogServer.cpp:251-262,        *)
(* README.md:45-46).                                                       *)
ParsersAgree == InScalar.verdict = "pushed" => entry = InScalar
=============================================================================
