------------------------------ MODULE DeviceTime ------------------------------
(***************************************************************************)
(* The two times of the device.  The clock on the display is set by every  *)
(* host and runs on from there (_applyJson in data.h, clockRefreshRtc in   *)
(* main.cpp); a battery keeps it over a restart.  The system time, which   *)
(* certificates and the orders of an update are judged by, is set by a     *)
(* host on an authenticated link or by SNTP, and trusted for a while       *)
(* (wifi_manager.cpp, trusted_time_logic.h).  Of a clock the model keeps   *)
(* what it is wrong by; a host on an open link may be wrong.               *)
(***************************************************************************)
EXTENDS Integers

CONSTANTS
  Wrap,       \* millis() wraps after this many seconds
  MaxAge,     \* TRUSTED_TIME_MAX_AGE_MS
  HostFresh,  \* WIFI_HOST_UTC_FRESH_MS
  Retry       \* SNTP_RETRY_MS

ASSUME TimeAssumption ==
  /\ {Wrap, MaxAge, HostFresh, Retry} \subseteq Nat \ {0}
  /\ HostFresh <= MaxAge /\ MaxAge + 1 < Wrap \div 2 /\ Retry < Wrap \div 2

VARIABLES
  millis,
  hostTime,             \* _clockHostTimeValid, _clockHostSyncMs, and what the host is wrong by
  rtc, rtcValid,    \* the clock on the battery
  shown, lastRead,  \* _clkTm and _clkLastRead
  trusted, system,  \* TrustedTimeState and the system time
  online, sntp,     \* WIFI_ONLINE; the request, the next attempt, the service
  heardAgo               \* how long ago the host and the trusted source really spoke

timeVars == <<millis, hostTime, rtc, rtcValid, shown, lastRead, trusted, system, online, sntp, heardAgo>>

Right == "right"
Wrong == "wrong"
Late == "late"    \* one turn of the counter, or more, behind
Unset == "unset"  \* since the year 2000, or 1970

Since(at) == (millis - at) % Wrap

(* trustedTimeFresh *)
Fresh == trusted.source # "none" /\ Since(trusted.at) <= MaxAge

(***************************************************************************)
(* A line of a host that holds the time.                                   *)
(***************************************************************************)

\* For comparison: a host on an open link is trusted too.
AcceptAnyHost(authenticated, time) ==
  \/ /\ system' = time /\ trusted' = [source |-> "host", at |-> millis]
     /\ heardAgo' = [host |-> 0, trusted |-> 0]
  \/ UNCHANGED <<system, trusted>> /\ heardAgo' = [heardAgo EXCEPT !.host = 0]

(* wifiManagerAcceptHostUtc: the system time is set first and trusted when *)
(* that did not fail.                                                      *)
AcceptHostUtc(authenticated, time) ==
  \/ /\ authenticated
     /\ system' = time /\ trusted' = [source |-> "host", at |-> millis]
     /\ heardAgo' = [host |-> 0, trusted |-> 0]
  \/ UNCHANGED <<system, trusted>> /\ heardAgo' = [heardAgo EXCEPT !.host = 0]

(* The display, and the clock on the battery, believe every host.          *)
TimeSync ==
  /\ \E authenticated \in BOOLEAN, time \in {Right, Wrong} :
       /\ authenticated => time = Right
       /\ AcceptHostUtc(authenticated, time)
       /\ hostTime' = [valid |-> TRUE, at |-> millis, time |-> time]
       /\ rtc' = time
  /\ rtcValid' = TRUE /\ lastRead' = 0
  /\ UNCHANGED <<millis, shown, online, sntp>>

(***************************************************************************)
(* The clock of the display, read once a second.                           *)
(***************************************************************************)

(* clockRefreshFromHostSync adds the seconds since the synchronisation, of *)
(* a counter that wraps.                                                   *)
FromHost == IF Since(hostTime.at) = heardAgo.host THEN hostTime.time ELSE Late

ReadDue == Since(lastRead) >= 1

RefreshClock ==
  /\ ReadDue
  /\ lastRead' = millis
  /\ IF hostTime.valid THEN shown' = FromHost /\ UNCHANGED rtcValid
     ELSE shown' = rtc /\ rtcValid' = (rtcValid \/ rtc # Unset)
  /\ UNCHANGED <<millis, hostTime, rtc, trusted, system, online, sntp, heardAgo>>

(***************************************************************************)
(* SNTP, polled by the Wi-Fi manager while it is online.                   *)
(***************************************************************************)

RecentHost == trusted.source = "host" /\ Since(trusted.at) <= HostFresh

(* The signed difference of two readings of the counter: an attempt that   *)
(* lies back half a turn or more seems to lie ahead.                       *)
AttemptDue == (millis - sntp.next) % Wrap < Wrap \div 2

SntpDone == online /\ sntp.requested /\ sntp.completed
SntpWanted ==
  /\ online /\ ~SntpDone /\ ~RecentHost
  /\ ~(trusted.source = "sntp" /\ Fresh) /\ AttemptDue

MaybeStartSntp ==
  /\ \/ /\ SntpDone
        /\ trusted' = [source |-> "sntp", at |-> millis]
        /\ heardAgo' = [heardAgo EXCEPT !.trusted = 0]
        /\ sntp' = [sntp EXCEPT !.requested = FALSE, !.completed = FALSE]
     \/ /\ SntpWanted
        /\ sntp' = [sntp EXCEPT !.requested = TRUE, !.started = TRUE,
                                !.next = (millis + Retry) % Wrap]
        /\ UNCHANGED <<trusted, heardAgo>>
  /\ UNCHANGED <<millis, hostTime, rtc, rtcValid, shown, lastRead, system, online>>

(* The service goes on asking by itself, and sets the system time.         *)
SntpAnswers ==
  /\ online /\ sntp.started /\ ~sntp.completed
  /\ sntp' = [sntp EXCEPT !.completed = TRUE] /\ system' = Right
  /\ UNCHANGED <<millis, hostTime, rtc, rtcValid, shown, lastRead, trusted, online, heardAgo>>

WifiComesOrGoes ==
  /\ online' = ~online
  /\ UNCHANGED <<millis, hostTime, rtc, rtcValid, shown, lastRead, trusted, system, sntp, heardAgo>>

(***************************************************************************)
(* A second goes by once the loop, which runs many times in it, has done   *)
(* what was due.                                                           *)
(***************************************************************************)

Older(n) == IF n < Wrap THEN n + 1 ELSE n

SecondPasses ==
  /\ ~ReadDue /\ ~SntpDone /\ ~SntpWanted
  /\ millis' = (millis + 1) % Wrap
  /\ heardAgo' = [host |-> IF hostTime.valid THEN Older(heardAgo.host) ELSE 0,
             trusted |-> IF trusted.source # "none" THEN Older(heardAgo.trusted) ELSE 0]
  /\ UNCHANGED <<hostTime, rtc, rtcValid, shown, lastRead, trusted, system, online, sntp>>

NoHost == [valid |-> FALSE, at |-> 0, time |-> Unset]
NoTrust == [source |-> "none", at |-> 0]
NoSntp == [requested |-> FALSE, next |-> 0, started |-> FALSE, completed |-> FALSE]

TimeInit ==
  /\ millis = 0 /\ hostTime = NoHost
  /\ rtc = Unset /\ rtcValid = FALSE /\ shown = Unset /\ lastRead = 0
  /\ trusted = NoTrust /\ system = Unset /\ online = FALSE /\ sntp = NoSntp
  /\ heardAgo = [host |-> 0, trusted |-> 0]

(* What is in memory is lost; the clock on the battery runs on, or stops.  *)
TimeRestart ==
  /\ rtc' \in {rtc, Unset}
  /\ millis' = 0 /\ hostTime' = NoHost /\ rtcValid' = FALSE /\ shown' = Unset /\ lastRead' = 0
  /\ trusted' = NoTrust /\ system' = Unset /\ online' = FALSE /\ sntp' = NoSntp
  /\ heardAgo' = [host |-> 0, trusted |-> 0]

TimeNext ==
  \/ TimeSync \/ RefreshClock \/ MaybeStartSntp \/ SntpAnswers \/ WifiComesOrGoes
  \/ SecondPasses \/ TimeRestart

TimeSpec == TimeInit /\ [][TimeNext]_timeVars

(***************************************************************************)
(* Correctness.                                                            *)
(***************************************************************************)

TimeTypeOK ==
  /\ {millis, lastRead, hostTime.at, trusted.at, sntp.next} \subseteq 0..(Wrap - 1)
  /\ rtc \in {Right, Wrong, Unset} /\ shown \in {Right, Wrong, Late, Unset}
  /\ system \in {Right, Wrong, Unset} /\ trusted.source \in {"none", "host", "sntp"}
  /\ {heardAgo.host, heardAgo.trusted} \subseteq 0..Wrap

(* What is trusted is right and was checked within a day, whatever hosts   *)
(* said on open links in between; only a full turn of the counter later    *)
(* the old synchronisation looks like a new one.                           *)
TrustIsEarned == Fresh => system = Right /\ heardAgo.trusted \in (0..MaxAge) \cup {Wrap}

(* Once the clock is shown as valid it is what the last host or else the   *)
(* battery says, within a second, until a turn of the counter has passed.  *)
ShownAsSynced ==
  ~ReadDue /\ millis > 0 =>
    /\ hostTime.valid /\ heardAgo.host < Wrap => shown = hostTime.time
    /\ ~hostTime.valid /\ rtcValid => shown = rtc /\ shown # Unset

(* Neither clock says what nobody told it.                                 *)
ClocksAreHonest == TrustIsEarned /\ ShownAsSynced
==============================================================================
