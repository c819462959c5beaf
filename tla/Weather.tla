------------------------------ MODULE Weather ------------------------------
(***************************************************************************)
(* The process that a weather request forks (get_weather_data): it asks    *)
(* the weather service over HTTP, formats what it gets in a buffer and     *)
(* writes one message to the client.  Each call to the outside may fail.   *)
(*                                                                         *)
(* Texts are their lengths in bytes.  The service is asked for three days  *)
(* (days=3 in the request) and sends at most MaxDays.                      *)
(***************************************************************************)
EXTENDS Naturals, Sequences, SequencesExt, FiniteSetsExt

CONSTANTS
    Child,       \* the processes that may be forked
    MaxDays,     \* the days the service sends
    HeadLength,  \* the lengths that the two lines of the heading may have
    DayLength,   \* the lengths that the lines of a day may have
    ChunkLength  \* the lengths that a read of the answer may return

BUFFER_SIZE == 1024   \* of formatted_weather
ResponseSize == 8192  \* of response
Ellipsis == 4         \* strlen("...\n")

(* The fixed text and the fields cut to their arrays: 99 and 63 bytes for the
   heading with its city and time, 134 and 9 fields of 215 in all for a day. *)
MaxHead == 36 + 63 + 63
MaxDay == 134 + 31 + 31 + 31 + 15 + 15 + 15 + 15 + 31 + 31

ASSUME WeatherAssumption ==
    /\ MaxDays \in 0..3
    /\ HeadLength \subseteq 0..MaxHead
    /\ DayLength \subseteq 0..MaxDay
    /\ ChunkLength \subseteq Nat \ {0}

VARIABLES
    stage,       \* stage[c]: what the process does next
    total_read,  \* bytes of the response
    length,      \* strlen(output)
    day, days,   \* i and size, of the loop over the days
    said         \* history variable: the messages written to the client

weatherVars == <<stage, total_read, length, day, days, said>>

(* The calls that precede the answer of the service, in their order. *)
Calls == <<"gethostbyname", "socket", "connect", "write">>
Stage == ToSet(Calls) \cup {"none", "read", "parse", "days", "send", "error", "exit"}

WeatherTypeOK ==
    /\ stage \in [Child -> Stage]
    /\ total_read \in [Child -> Nat]
    /\ length \in [Child -> Nat]
    /\ day \in [Child -> 0..MaxDays]
    /\ days \in [Child -> 0..MaxDays]
    /\ said \in [Child -> Seq({"error", "weather"})]

WeatherInit ==
    /\ stage = [c \in Child |-> "none"]
    /\ total_read = [c \in Child |-> 0]
    /\ length = [c \in Child |-> 0]
    /\ day = [c \in Child |-> 0]
    /\ days = [c \in Child |-> 0]
    /\ said = [c \in Child |-> <<>>]

Stands(c, s) == stage[c] = s
Passes(c, s) == stage' = [stage EXCEPT ![c] = s]

(* fork *)
Start(c) ==
    /\ Stands(c, "none")
    /\ Passes(c, Calls[1])
    /\ UNCHANGED <<total_read, length, day, days, said>>

(* A call that succeeds leads to the next, one that fails to the error. *)
Call(c) ==
    /\ \E i \in DOMAIN Calls :
         /\ Stands(c, Calls[i])
         /\ \/ Passes(c, IF i = Len(Calls) THEN "read" ELSE Calls[i + 1])
            \/ Passes(c, "error")
    /\ UNCHANGED <<total_read, length, day, days, said>>

(* read returns what has come, at most what there is room for; then 0 at the
   end of the response, or -1.  The loop also ends when the buffer is full. *)
Read(c) ==
    /\ Stands(c, "read")
    /\ \/ \E n \in ChunkLength :
            /\ total_read' = [total_read EXCEPT ![c] = Min({@ + n, ResponseSize - 1})]
            /\ Passes(c, IF total_read'[c] >= ResponseSize - 1 THEN "parse" ELSE "read")
       \/ Passes(c, "parse") /\ UNCHANGED total_read
       \/ Passes(c, "error") /\ UNCHANGED total_read
    /\ UNCHANGED <<length, day, days, said>>

(* The end of the HTTP header and the fields of the JSON text are found, and
   the heading is printed; or not.  A text cut off by the buffer fails here. *)
Parse(c) ==
    /\ Stands(c, "parse")
    /\ \/ /\ \E n \in HeadLength : length' = [length EXCEPT ![c] = n]
          /\ \E n \in 0..MaxDays : days' = [days EXCEPT ![c] = n]
          /\ Passes(c, "days")
       \/ Passes(c, "error") /\ UNCHANGED <<length, days>>
    /\ UNCHANGED <<total_read, day, said>>

(* Mutant: no look at the space that is left. *)
AddDay_Unchecked(c) ==
    /\ Stands(c, "days")
    /\ day[c] < days[c]
    /\ \E n \in DayLength : length' = [length EXCEPT ![c] = @ + n]
    /\ day' = [day EXCEPT ![c] = @ + 1]
    /\ UNCHANGED <<stage, total_read, days, said>>

(* A day that does not fit is replaced by an ellipsis, which ends the loop. *)
AddDay(c) ==
    /\ Stands(c, "days")
    /\ day[c] < days[c]
    /\ \E n \in DayLength :
         IF length[c] + n < BUFFER_SIZE - 1
         THEN /\ length' = [length EXCEPT ![c] = @ + n]
              /\ day' = [day EXCEPT ![c] = @ + 1]
              /\ UNCHANGED stage
         ELSE /\ length' = [length EXCEPT ![c] = @ + Ellipsis]
              /\ Passes(c, "send")
              /\ UNCHANGED day
    /\ UNCHANGED <<total_read, days, said>>

NoMoreDays(c) ==
    /\ Stands(c, "days")
    /\ day[c] = days[c]
    /\ Passes(c, "send")
    /\ UNCHANGED <<total_read, length, day, days, said>>

Says(c, what) == said' = [said EXCEPT ![c] = Append(@, what)]

(* Mutant: the return after the error is missing. *)
SendError_GoesOn(c) ==
    /\ Stands(c, "error")
    /\ Says(c, "error")
    /\ Passes(c, "send")
    /\ UNCHANGED <<total_read, length, day, days>>

SendError(c) ==
    /\ Stands(c, "error")
    /\ Says(c, "error")
    /\ Passes(c, "exit")
    /\ UNCHANGED <<total_read, length, day, days>>

SendWeather(c) ==
    /\ Stands(c, "send")
    /\ Says(c, "weather")
    /\ Passes(c, "exit")
    /\ UNCHANGED <<total_read, length, day, days>>

ChildStep(c) ==
    \/ Call(c) \/ Read(c) \/ Parse(c) \/ AddDay(c) \/ NoMoreDays(c)
    \/ SendError(c) \/ SendWeather(c)

-----------------------------------------------------------------------------
(* Properties.                                                             *)

(* Whatever the service sends, in whatever pieces, what the child gathers and
   its terminating zero fit the buffers, also when the ellipsis is put behind
   a text that had no room for another day (get_weather_data,
   parse_and_format_weather). *)
BuffersHold ==
    \A c \in Child : total_read[c] < ResponseSize /\ length[c] < BUFFER_SIZE

(* On every way through get_weather_data the client gets one message: the
   weather or an error, and neither both nor nothing. *)
OneAnswer ==
    \A c \in Child :
        Len(said[c]) = (IF Stands(c, "exit") THEN 1 ELSE 0)
=============================================================================
