---------------------------- MODULE UPnPUpdater ----------------------------
(***************************************************************************)
(* upnp_updater.h: the loop that keeps a port mapping alive on the         *)
(* Internet gateway devices (IGDs) of the local network.  Time is discrete *)
(* and passes while the loop sleeps or waits for a device.  A device       *)
(* either renews a mapping that is added again or, like old versions of    *)
(* MiniUPnPd, says so and leaves the old lease.  The mappings on a device  *)
(* are abstracted to what is left of the lease of ours.                    *)
(***************************************************************************)
EXTENDS Naturals, FiniteSets

CONSTANTS
  Igd,          \* the devices that may be found
  Renews,       \* those that renew a mapping
  lease_duration, failure_wait_time, recent_margin, timeout_pause,
  restart_pause,  \* the pause after an exception
  MaxRound      \* bound: time that the requests of one round take

ASSUME UPnPAssumption ==
  /\ {lease_duration, failure_wait_time, recent_margin, timeout_pause, restart_pause,
      MaxRound} \subseteq Nat
  /\ 0 < recent_margin /\ 2 * recent_margin <= lease_duration
  /\ Renews \subseteq Igd

VARIABLES
  upnp_pc,      \* "begin", "discover", "add", "query", "address", "sleep" or "gone"
  lease,        \* what is left of our mapping's lease on each device; 0: none
  igds, igd,    \* the devices of this round to come, and the one in turn
  success_cnt,
  elapsed,      \* time since round_begin
  query_begin,  \* as time since round_begin, and
  buggy,        \* earlier_buggy_timeout likewise: {} or {t}
  wait,         \* what is left of the sleep
  ip_attempts,  \* get_local_ipv4_attempts
  is_available, is_active,
  \* history: the devices whose last request failed or was not made; those
  \* after whose request the last round went on for the margin; and those whose
  \* mapping ran out for neither reason, and before this round took that long
  missed, slow, lapsed

upnp_vars == <<upnp_pc, lease, igds, igd, success_cnt, elapsed, query_begin, buggy, wait,
               ip_attempts, is_available, is_active, missed, slow, lapsed>>

success_wait_time == lease_duration - recent_margin
NoIgd == "no device"

UPnPInit ==
  /\ upnp_pc = "begin"
  /\ lease \in [Igd -> {0, lease_duration - 1}]   \* of an earlier process
  /\ igds = {} /\ igd = NoIgd /\ success_cnt = 0 /\ buggy = {}
  /\ elapsed = 0 /\ query_begin = 0 /\ wait = 0 /\ ip_attempts = 0
  /\ is_available = FALSE /\ is_active = FALSE
  /\ missed = Igd /\ slow = {} /\ lapsed = {}

Minus(a, b) == IF a > b THEN a - b ELSE 0

\* The loop waits for a device: for as long as it takes to answer.
Requesting == upnp_pc \in {"discover", "add", "query", "address"}

\* Time passes during a request, or while the loop sleeps.
UPnPTick ==
  /\ \/ Requesting /\ elapsed < MaxRound /\ elapsed' = elapsed + 1
     \/ upnp_pc = "sleep" /\ wait > 0 /\ UNCHANGED elapsed
  /\ lease' = [k \in Igd |-> Minus(lease[k], 1)]
  /\ lapsed' = lapsed \cup
       {k \in Renews \ (missed \cup slow) :
          lease[k] = 1 /\ (Requesting => elapsed' < recent_margin)}
  /\ wait' = Minus(wait, 1)
  /\ UNCHANGED <<upnp_pc, igds, igd, success_cnt, query_begin, buggy, ip_attempts,
                 is_available, is_active, missed, slow>>

SleepFor(t) == upnp_pc' = "sleep" /\ wait' = t

\* The local variables of a round are gone.
RoundOver ==
  /\ igds' = {} /\ igd' = NoIgd /\ success_cnt' = 0 /\ buggy' = {}
  /\ elapsed' = 0 /\ query_begin' = 0

\* The start of a round.  Without a local address it is begun again at once,
\* and from the fifth time on after a pause.
BeginRound ==
  /\ upnp_pc = "begin"
  /\ \/ upnp_pc' = "discover" /\ ip_attempts' = 0
        /\ UNCHANGED <<wait, is_active, missed>>
     \/ /\ missed' = Igd
        /\ ip_attempts' = IF ip_attempts < 5 THEN ip_attempts + 1 ELSE ip_attempts
        /\ IF ip_attempts' >= 5 THEN SleepFor(failure_wait_time) /\ is_active' = FALSE
                             ELSE UNCHANGED <<upnp_pc, wait, is_active>>
  /\ UNCHANGED <<lease, igds, igd, success_cnt, elapsed, query_begin, buggy,
                 is_available, slow, lapsed>>

\* upnp::igd::discover returns the devices that answered.
Discovered ==
  /\ upnp_pc = "discover"
  /\ \/ /\ is_available' = FALSE /\ is_active' = FALSE
        /\ SleepFor(failure_wait_time)
        /\ missed' = Igd /\ RoundOver
     \/ \E found \in SUBSET Igd \ {{}} :
          /\ is_available' = TRUE
          /\ igds' = found /\ upnp_pc' = "add"
          /\ missed' = missed \cup (Igd \ found)
          /\ UNCHANGED <<igd, success_cnt, elapsed, query_begin, buggy, is_active, wait>>
  /\ UNCHANGED <<lease, ip_attempts, slow, lapsed>>

\* add_port_mapping on one of the devices that are left.
AddPortMapping(k) ==
  /\ upnp_pc = "add" /\ k \in igds
  /\ igds' = igds \ {k}
  /\ \/ missed' = missed \cup {k} /\ UNCHANGED <<upnp_pc, igd, lease, query_begin>>
     \/ /\ lease' = IF k \in Renews \/ lease[k] = 0
                    THEN [lease EXCEPT ![k] = lease_duration] ELSE lease
        /\ upnp_pc' = "query" /\ igd' = k /\ query_begin' = elapsed
        /\ missed' = missed \ {k}
  /\ UNCHANGED <<success_cnt, elapsed, buggy, wait, ip_attempts, is_available,
                 is_active, slow, lapsed>>

\* The entry of our mapping, if the device lists one.  The request may also
\* fail, or the port be taken by another client of the device.
get_mapping_duration == {{}} \cup {{lease[k]} : k \in {m \in {igd} : lease[m] > 0}}

\* What the loop makes of it: no mapping, one that was not renewed and runs
\* out before it is added again, or success.
MappingDuration ==
  /\ upnp_pc = "query"
  /\ igd' = NoIgd /\ query_begin' = 0
  /\ \E curr_duration \in get_mapping_duration :
     \/ /\ curr_duration = {}
        /\ upnp_pc' = "add" /\ missed' = missed \cup {igd}
        /\ UNCHANGED <<success_cnt, buggy>>
     \/ \E d \in curr_duration :
        /\ UNCHANGED missed
        /\ IF lease_duration >= d + recent_margin
           THEN /\ buggy' = IF \E t \in buggy : t <= query_begin + d THEN buggy
                            ELSE {query_begin + d}
                /\ upnp_pc' = "add" /\ UNCHANGED success_cnt
           ELSE /\ success_cnt' = success_cnt + 1
                /\ upnp_pc' = "address" /\ UNCHANGED buggy
  /\ UNCHANGED <<lease, igds, elapsed, wait, ip_attempts, is_available, is_active,
                 slow, lapsed>>

\* get_external_address returns, or fails, and the mapping is enabled.
ExternalAddress ==
  /\ upnp_pc = "address"
  /\ upnp_pc' = "add" /\ is_active' = TRUE
  /\ UNCHANGED <<lease, igds, igd, success_cnt, elapsed, query_begin, buggy, wait,
                 ip_attempts, is_available, missed, slow, lapsed>>

\* Mutant of wait_time: the time that the round took is not taken off.
wait_time_whole ==
  IF success_cnt > 0 THEN success_wait_time
  ELSE IF buggy = {} THEN failure_wait_time
  ELSE Minus((CHOOSE t \in buggy : TRUE) + timeout_pause, elapsed)

wait_time ==
  IF success_cnt > 0 THEN Minus(success_wait_time, elapsed)
  ELSE IF buggy = {} THEN failure_wait_time
  ELSE Minus((CHOOSE t \in buggy : TRUE) + timeout_pause, elapsed)

EndRound ==
  /\ upnp_pc = "add" /\ igds = {}
  /\ is_active' = (is_active /\ (success_cnt > 0 \/ buggy # {}))
  /\ SleepFor(wait_time) /\ RoundOver
  /\ slow' = {k \in Igd : lease[k] + recent_margin <= lease_duration}
  /\ UNCHANGED <<lease, ip_attempts, is_available, missed, lapsed>>

WaitOver ==
  /\ upnp_pc = "sleep" /\ wait = 0
  /\ upnp_pc' = "begin"
  /\ UNCHANGED <<lease, igds, igd, success_cnt, elapsed, query_begin, buggy, wait,
                 ip_attempts, is_available, is_active, missed, slow, lapsed>>

\* An exception leaves the loop, which is begun again after a pause.
LoopThrows ==
  /\ Requesting
  /\ is_active' = FALSE /\ missed' = Igd
  /\ SleepFor(restart_pause) /\ RoundOver /\ ip_attempts' = 0
  /\ UNCHANGED <<lease, is_available, slow, lapsed>>

\* The destructor cancels the loop.
UpdaterGone ==
  /\ upnp_pc # "gone"
  /\ upnp_pc' = "gone"
  /\ UNCHANGED <<lease, igds, igd, success_cnt, elapsed, query_begin, buggy, wait,
                 ip_attempts, is_available, is_active, missed, slow, lapsed>>

UPnPNext ==
  \/ UPnPTick \/ BeginRound \/ Discovered
  \/ \E k \in Igd : AddPortMapping(k)
  \/ MappingDuration \/ ExternalAddress \/ EndRound \/ WaitOver \/ LoopThrows \/ UpdaterGone

UPnPSpec == UPnPInit /\ [][UPnPNext]_upnp_vars

-----------------------------------------------------------------------------
\* A mapping on a device that renews mappings and answers runs out only if the
\* requests of a round take long: recent_margin is meant for one request, but a
\* round asks every device several times and nothing bounds its length.  The
\* mapping is lost only when this round has lasted for the margin and not come
\* to the device, or the last one went on for the margin after renewing it (the
\* lease then looks as if it had not been renewed, or the wait is not short
\* enough).  Otherwise the loop comes back in time, even after rounds that were
\* slow, and however often other devices fail.
MappingKept == lapsed = {}
=============================================================================
