----------------------------- MODULE EtwSettings -----------------------------
(***************************************************************************)
(* The settings that timestamps are formatted with, AdjustFileTime, and    *)
(* the text of a FILETIME and of a SYSTEMTIME.                             *)
(*                                                                         *)
(* A file time is the 64-bit word that the event holds, as an INT64: the   *)
(* negative ones are those that FileTimeToSystemTime refuses.  A system    *)
(* time is the file time of the same date, or InvalidDate.                 *)
(***************************************************************************)
EXTENDS EtwCharacters

CONSTANTS
    MinTime,       (* MININT64                                               *)
    MaxTime,       (* MAXINT64                                               *)
    PerMinute,     (* file time units in a minute                            *)
    MaxBias,       (* 1440: a bias is 24 hours or less                       *)
    Formats,       (* the values that SetTimestampFormat is called with      *)
    Biases         (* the values that SetTimeZoneBiasMinutes is called with  *)

ASSUME SettingsAssumption ==
    /\ MaxTime \in Nat
    /\ MinTime = -MaxTime - 1
    /\ PerMinute \in Nat
    /\ MaxBias \in Nat
    /\ MaxBias * PerMinute <= MaxTime
    /\ Biases \subseteq -MaxBias .. MaxBias

VARIABLES
    timestampFormat,       (* m_timestampFormat: its type and the set of its flags *)
    timeZoneBiasMinutes    (* m_timeZoneBiasMinutes                                *)

settingVars == <<timestampFormat, timeZoneBiasMinutes>>

FormatTypes == {"Internet", "Wpp"}
FormatFlags == {"Local", "LowPrecision", "NoTimeZoneSuffix", "AssumeFileTimeUTC"}

ValidFormat(format) == format.type \in FormatTypes /\ format.flags \subseteq FormatFlags

InitialFormat == [type |-> "Internet", flags |-> {}]

InitSettings ==
    /\ timestampFormat = InitialFormat
    /\ timeZoneBiasMinutes \in Biases

SetTimestampFormat(format) ==
    /\ timestampFormat' = IF ValidFormat(format) THEN format ELSE timestampFormat
    /\ UNCHANGED timeZoneBiasMinutes

SetTimeZoneBiasMinutes(bias) ==
    /\ timeZoneBiasMinutes' = bias
    /\ UNCHANGED timestampFormat

-----------------------------------------------------------------------------
(* AdjustFileTime: the sum may leave the 64 bits. *)

Span == MaxTime - MinTime + 1

Wrapped(n) == IF n > MaxTime THEN n - Span ELSE IF n < MinTime THEN n + Span ELSE n

\* The sign of the sum tells an overflow from a time before 1601.
AdjustFileTime(fileTime, biasMinutes) ==
    LET adjusted == Wrapped(fileTime + biasMinutes * PerMinute)
    IN  CASE adjusted >= 0 -> adjusted
          [] adjusted < 0 /\ (fileTime < 0 \/ biasMinutes < 0) -> 0
          [] OTHER -> MaxTime

-----------------------------------------------------------------------------
(* The text of a timestamp. *)

InvalidDate == -1

\* A date to the millisecond, or to the unit of a file time.
Date(t, digits) ==
    IF t = InvalidDate THEN Mark("0000-00-00")
    ELSE <<IF digits = 3 THEN "date.3" ELSE "date.7", t>>

Utc == Mark("Z")
Offset(bias) == <<"+HH:MM", bias>>

\* FileTimeToSystemTime; its failure leaves the SYSTEMTIME zero.
FileTimeToDate(t) == IF t < 0 THEN InvalidDate ELSE t

\* SystemTimeToFileTime; its failure leaves the file time zero.
DateToFileTime(date) == IF date = InvalidDate THEN 0 ELSE date

WithoutSuffix(flags) == flags \cup {"NoTimeZoneSuffix"}

\* What AppendAdjustedSystemTime appends: the date, and if it is known, the zone.
AdjustedSystemTime(date, digits, flags, bias) ==
    IF "NoTimeZoneSuffix" \in flags THEN <<Date(date, digits)>>
    ELSE <<Date(date, digits), IF "Local" \in flags THEN Offset(bias) ELSE Utc>>

\* AppendFileTime.
FileTimeText(fileTime, flags, bias, timeIsUtc) ==
    LET adjusted == IF timeIsUtc /\ "Local" \in flags THEN AdjustFileTime(fileTime, bias)
                                                      ELSE fileTime
    IN  AdjustedSystemTime(FileTimeToDate(adjusted),
                           IF "LowPrecision" \in flags THEN 3 ELSE 7,
                           IF timeIsUtc THEN flags ELSE WithoutSuffix(flags), bias)

\* AppendSystemTime.
SystemTimeText(date, flags, bias, timeIsUtc) ==
    LET adjusted == IF timeIsUtc /\ "Local" \in flags
                    THEN FileTimeToDate(AdjustFileTime(DateToFileTime(date), bias))
                    ELSE date
    IN  AdjustedSystemTime(adjusted, 3, IF timeIsUtc THEN flags ELSE WithoutSuffix(flags), bias)

-----------------------------------------------------------------------------
(* Reading a timestamp back, as RFC 3339 has it. *)

\* The sum stays a file time.
Representable(t, bias) == t + bias * PerMinute \in 0 .. MaxTime

\* The text `s` of the instant t: the date it shows, less the offset it shows,
\* is the instant; it shows a zone only if the instant is known to be UTC, and
\* then unless the format says not to.  What cannot be read back is a time
\* that is no date, or that the bias carries out of the 64 bits.
TimeIsRead(s, t, flags, bias, timeIsUtc) ==
    LET suffix == Len(s) = 2
        date   == s[1][2]
        shift  == IF timeIsUtc /\ "Local" \in flags THEN bias ELSE 0
    IN  /\ suffix <=> timeIsUtc /\ "NoTimeZoneSuffix" \notin flags
        /\ t >= 0 /\ Representable(t, shift) =>
             /\ s[1] # Mark("0000-00-00")
             /\ IF suffix /\ s[2] # Utc THEN date - s[2][2] * PerMinute = t
                ELSE IF suffix THEN date = t
                ELSE date - shift * PerMinute = t
=============================================================================
