------------------------------- MODULE MCFiles -------------------------------
(***************************************************************************)
(* The two interfaces to files.  SQLite's VFS: the bytes of a file, the    *)
(* shared-memory locks and the clock.  Styx: the server with requests      *)
(* already parsed, and the wire format they come in.  Each of the five is  *)
(* followed while the others are in their initial state.                   *)
(***************************************************************************)
EXTENDS VfsIo, ShmLocks, RtcClock, StyxServer, StyxMessage, TLC

\* Characters of one to four bytes; and texts that are no UTF-8: a byte of no
\* character, a character cut short by the end or by another, one that is too
\* long for what it encodes.
Unknown == <<239, 191, 189>>
NotUtf8 ==
  (<<255>> :> Unknown) @@ (<<195>> :> Unknown) @@ (<<226, 130, 65>> :> Unknown \o <<65>>)
    @@ (<<224, 128, 65>> :> Unknown \o Unknown \o <<65>>)
Texts ==
  {<<>>, <<65>>, <<65, 66>>, <<195, 169>>, <<226, 130, 172, 65>>, <<240, 159, 152, 128>>}
    \cup DOMAIN NotUtf8

SomeWalks ==
  {<<>>, <<"sys", "meminfo">>, <<"db", "ctl">>, <<"sys", "none">>}

Fids == Permutations(Fid)

\* Shortly before the ends of months: of a year, of February in the leap years
\* 2000 and 2004 and in 2100, which is none, and of November.
Dates ==
  { [y |-> 1999, m |-> 12, d |-> 31, jdn |-> 2451544],
    [y |-> 2000, m |-> 2,  d |-> 28, jdn |-> 2451603],
    [y |-> 2003, m |-> 11, d |-> 29, jdn |-> 2452973],
    [y |-> 2004, m |-> 2,  d |-> 28, jdn |-> 2453064],
    [y |-> 2100, m |-> 2,  d |-> 28, jdn |-> 2488128] }

KindsOfClock ==
  { [bcd |-> TRUE,  hours24 |-> TRUE,  century |-> TRUE],
    [bcd |-> FALSE, hours24 |-> TRUE,  century |-> FALSE],
    [bcd |-> TRUE,  hours24 |-> FALSE, century |-> TRUE] }

\* Two seconds before midnight, and before eleven in the morning.
TimesOfDay == {86398, 39598}

MCInit == IoInit /\ ShmInit /\ RtcInit /\ Init /\ MessageInit

\* The clock in one of its initial states.
InitialClock ==
  /\ RtcInit
  /\ clock = CHOOSE c \in Clocks : TRUE
  /\ first = [start |-> CHOOSE s \in Starts : TRUE, secs |-> CHOOSE t \in Times : TRUE]

InitialVfs  == IoInit /\ ShmInit /\ InitialClock /\ UNCHANGED <<ioVars, shm, rtc>>
InitialStyx == Init /\ MessageInit /\ UNCHANGED <<vars, wire>>

Files   == InitialStyx /\ ShmInit /\ InitialClock /\ IoNext /\ UNCHANGED <<shm, rtc>>
Locking == InitialStyx /\ IoInit /\ InitialClock /\ ShmNext /\ UNCHANGED <<ioVars, rtc>>
Telling == InitialStyx /\ IoInit /\ ShmInit /\ RtcNext /\ UNCHANGED <<ioVars, shm>>
Serving == InitialVfs /\ MessageInit /\ Next /\ UNCHANGED wire
Wiring  == InitialVfs /\ Init /\ MessageNext /\ UNCHANGED vars

MCNext == Files \/ Locking \/ Telling \/ Serving \/ Wiring
MCSpec == MCInit /\ [][MCNext]_<<ioVars, shm, rtc, vars, wire>>
=============================================================================
