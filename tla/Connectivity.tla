---------------------------- MODULE Connectivity ----------------------------
(***************************************************************************)
(* Limits of the providers and the recovery of the proxy.  Each poll scans  *)
(* a few panes, keeps what they show in a cache, and from the cache runs    *)
(* two episodes: PROXY-DOWN (a transport failure confirmed by repeated      *)
(* observations) and OC-LIMIT (a rate limit).  An episode starts a script   *)
(* on its rising edge; what ends it sends resumes to the panes, whose       *)
(* answer is polled for.                                                    *)
(***************************************************************************)
EXTENDS Integers, Sequences, FiniteSets

CONSTANTS
  Panes,       \* the monitored panes, in scan order
  ScanBatch,       \* PANE_SCAN_BATCH
  ConnectThreshold,   \* connect observations that confirm a failure
  MaxChange    \* bound: changes of what the world shows

VARIABLES
  shows,       \* a pane: fine, connect, rate (an OpenCode limit), cc (another provider's) or blank
  offset,      \* paneScanOffset
  cache,       \* paneLimitCache: no, connect or rate
  streak,      \* paneConnectStreak
  ccSeen,      \* paneCcLimitSeen
  limited, connects,          \* the sets the borders are painted from
  proxyDown,                  \* proxyDownActive
  episode, recovered,         \* rateLimitEpisodeActive, rateLimitRecoveryStarted
  running,                    \* recoveryRunning
  scripts,                    \* the scripts that run: up, smart and wait
  cooling,                    \* cooldowns and graces that have not expired
  resumes,                    \* a resume wave is about to be sent
  wave,                       \* the panes of the last wave that have not confirmed
  carrier, wifiLock,          \* the world: the IP probe's answer, the lock file
  changes

connVars == <<shows, offset, cache, streak, ccSeen, limited, connects, proxyDown, episode,
              recovered, running, scripts, cooling, resumes, wave, carrier, wifiLock, changes>>
world == <<shows, carrier, wifiLock, changes>>

Pane == {Panes[i] : i \in DOMAIN Panes}
Timers == {"up", "rotate", "rearm", "grace"}

ASSUME ConnAssumption ==
  /\ Panes \in Seq(Pane) /\ Panes # <<>>
  /\ {ScanBatch, ConnectThreshold} \subseteq Nat \ {0} /\ MaxChange \in Nat

ConnTypeOK ==
  /\ shows \in [Pane -> {"fine", "connect", "rate", "cc", "blank"}]
  /\ offset \in 0..(Len(Panes) - 1)
  /\ cache \in [Pane -> {"no", "connect", "rate"}]
  /\ streak \in [Pane -> 0..ConnectThreshold]
  /\ ccSeen \subseteq Pane
  /\ connects \subseteq limited /\ limited \subseteq Pane
  /\ {proxyDown, episode, recovered, running, resumes, carrier, wifiLock} \subseteq BOOLEAN
  /\ scripts \in [{"up", "smart", "wait"} -> Nat]
  /\ cooling \subseteq Timers
  /\ wave \subseteq Pane
  /\ changes \in 0..MaxChange

ConnInit ==
  /\ shows = [p \in Pane |-> "fine"] /\ offset = 0
  /\ cache = [p \in Pane |-> "no"] /\ streak = [p \in Pane |-> 0] /\ ccSeen = {}
  /\ limited = {} /\ connects = {} /\ proxyDown = FALSE
  /\ episode = FALSE /\ recovered = FALSE /\ running = FALSE
  /\ scripts = [s \in {"up", "smart", "wait"} |-> 0]
  /\ cooling = {} /\ resumes = FALSE /\ wave = {}
  /\ carrier = TRUE /\ wifiLock = FALSE /\ changes = 0

-----------------------------------------------------------------------------
(* The scan *)

Scanned == {Panes[((offset + i) % Len(Panes)) + 1] : i \in 0..(ScanBatch - 1)}

\* Fault: the scan stays with the panes that started the episode.
OffsetStays == IF episode \/ proxyDown THEN offset ELSE (offset + ScanBatch) % Len(Panes)

NextOffset == (offset + ScanBatch) % Len(Panes)

\* Another provider's limit leaves cache and streak as they were.
StreakOf(p) ==
  IF p \notin Scanned \/ shows[p] \in {"cc", "blank"} THEN streak[p]
  ELSE IF shows[p] # "connect" THEN 0
  ELSE IF streak[p] < ConnectThreshold THEN streak[p] + 1 ELSE ConnectThreshold

CacheOf(p) ==
  IF p \notin Scanned \/ shows[p] = "cc" THEN cache[p]
  ELSE CASE shows[p] = "rate" -> "rate"
         [] shows[p] = "connect" /\ StreakOf(p) = ConnectThreshold -> "connect"
         [] OTHER -> "no"

Seen ==
  (ccSeen \cup {p \in Scanned : shows[p] = "cc"}) \ {p \in Scanned : shows[p] = "fine"}

-----------------------------------------------------------------------------
(* The episodes *)

DownNow(now) == now # {} /\ ~(~proxyDown /\ carrier /\ "rearm" \in cooling)

\* maybeRunProxyUp, on the rising edge only
RunsUp(now) == DownNow(now) /\ ~proxyDown /\ ~running /\ "up" \notin cooling

\* Fault: the limit's recovery does not ask whether a script runs.
RunsLimitAnyhow(anyRate, busy) ==
  anyRate /\ ~episode /\ ~recovered /\ "rotate" \notin cooling

\* maybeRunOcLimitRecovery, on the rising edge only
RunsLimit(anyRate, busy) ==
  anyRate /\ ~episode /\ ~recovered /\ ~busy /\ "rotate" \notin cooling

\* updateRateLimitEpisode, after the proxy part of the poll.  limitScript is
\* the one the policy has: smart, or wait at once.
RateEpisode(anyRate, busy, upStarts, timers) ==
  /\ IF anyRate THEN episode' = TRUE
     ELSE episode' = (episode /\ "grace" \in cooling)
  /\ recovered' = IF RunsLimit(anyRate, busy) THEN TRUE
                  ELSE recovered /\ ~(episode /\ ~episode')
  /\ running' = (busy \/ RunsLimit(anyRate, busy))
  /\ cooling' = timers \cup (IF anyRate THEN {"grace"} ELSE {})
                       \cup (IF RunsLimit(anyRate, busy) THEN {"rotate"} ELSE {})
  /\ \E s \in {"smart", "wait"} :
       scripts' = [k \in DOMAIN scripts |->
         scripts[k] + (IF k = "up" /\ upStarts THEN 1 ELSE 0)
                    + (IF k = s /\ RunsLimit(anyRate, busy) THEN 1 ELSE 0)]

\* pollConnectivityRecovery.  With the lock file of the wifi probe it stops
\* after the scan.
PollConnectivity ==
  LET found   == [p \in Pane |-> CacheOf(p)]
      now     == {p \in Pane : found[p] = "connect"}
      anyRate == \E p \in Pane : found[p] = "rate"
      up      == RunsUp(now)
      clears  == proxyDown /\ ~DownNow(now)
  IN
  /\ offset' = NextOffset
  /\ ccSeen' = Seen
  /\ limited' = {p \in Pane : found[p] # "no"} /\ connects' = now
  /\ IF wifiLock
     THEN /\ cache' = found /\ streak' = [p \in Pane |-> StreakOf(p)]
          /\ proxyDown' = FALSE
          /\ UNCHANGED <<episode, recovered, running, scripts, cooling, resumes>>
     ELSE /\ proxyDown' = DownNow(now)
          /\ cache' = [p \in Pane |-> IF clears /\ found[p] = "connect" THEN "no" ELSE found[p]]
          /\ streak' = [p \in Pane |-> IF clears THEN 0 ELSE StreakOf(p)]
          /\ resumes' = (resumes \/ clears)
          /\ RateEpisode(anyRate, running \/ up, up,
                         cooling \cup (IF up THEN {"up"} ELSE {})
                                 \cup (IF clears THEN {"rearm"} ELSE {}))
  /\ UNCHANGED <<wave>> /\ UNCHANGED world

-----------------------------------------------------------------------------
(* The scripts end *)

Ended(s) == scripts[s] > 0 /\ scripts' = [scripts EXCEPT ![s] = @ - 1]

UpEnds ==
  /\ Ended("up") /\ running' = FALSE
  /\ UNCHANGED <<offset, cache, streak, ccSeen, limited, connects, proxyDown, episode,
                 recovered, cooling, resumes, wave>> /\ UNCHANGED world

\* finish: a resume when the script has succeeded or the address has changed
WaitEnds ==
  /\ Ended("wait") /\ running' = FALSE
  /\ \E resume \in BOOLEAN : resumes' = (resumes \/ resume)
  /\ UNCHANGED <<offset, cache, streak, ccSeen, limited, connects, proxyDown, episode,
                 recovered, cooling, wave>> /\ UNCHANGED world

\* The smart restart has done it, or the wait for an address follows.
SmartEnds ==
  /\ scripts["smart"] > 0
  /\ \/ /\ Ended("smart") /\ running' = FALSE
        /\ resumes' \in {resumes, TRUE}
     \/ /\ scripts' = [scripts EXCEPT !["smart"] = @ - 1, !["wait"] = @ + 1]
        /\ UNCHANGED <<running, resumes>>
  /\ UNCHANGED <<offset, cache, streak, ccSeen, limited, connects, proxyDown, episode,
                 recovered, cooling, wave>> /\ UNCHANGED world

-----------------------------------------------------------------------------
(* Resumes *)

\* resumeOpenCodePanes.  A new wave replaces the old one; one that reached no
\* pane does not.
ResumeWave ==
  /\ resumes /\ resumes' = FALSE
  /\ \E sent \in SUBSET Pane : wave' = IF sent = {} THEN wave ELSE sent
  /\ UNCHANGED <<offset, cache, streak, ccSeen, limited, connects, proxyDown, episode,
                 recovered, running, scripts, cooling>> /\ UNCHANGED world

\* pollResumeAcks, with onResumeAckPane for the panes that are OpenCode and
\* show no limit: clearOcLimitBannerForPane and maybeEndRateLimitEpisode.
PollAcks ==
  /\ wave # {}
  /\ wave' = {p \in wave : shows[p] \in {"rate", "connect"}}
  /\ LET works == {p \in wave : shows[p] = "fine"}
         had   == {p \in works : cache[p] # "no" \/ p \in limited}
         ends  == had # {} /\ \A p \in Pane \ had : cache[p] # "rate"
     IN  /\ cache' = [p \in Pane |-> IF p \in works THEN "no" ELSE cache[p]]
         /\ streak' = [p \in Pane |-> IF p \in works THEN 0 ELSE streak[p]]
         /\ limited' = limited \ works /\ connects' = connects \ works
         /\ episode' = (episode /\ ~ends) /\ recovered' = (recovered /\ ~ends)
         /\ cooling' = IF ends THEN cooling \ {"grace"} ELSE cooling
  /\ UNCHANGED <<offset, ccSeen, proxyDown, running, scripts, resumes>> /\ UNCHANGED world

-----------------------------------------------------------------------------
(* The world *)

Timer(t) ==
  /\ t \in cooling /\ cooling' = cooling \ {t}
  /\ UNCHANGED <<offset, cache, streak, ccSeen, limited, connects, proxyDown, episode,
                 recovered, running, scripts, resumes, wave>> /\ UNCHANGED world

Change ==
  /\ changes < MaxChange /\ changes' = changes + 1
  /\ \/ \E p \in Pane, v \in {"fine", "connect", "rate", "cc", "blank"} :
          shows' = [shows EXCEPT ![p] = v] /\ UNCHANGED <<carrier, wifiLock>>
     \/ carrier' = ~carrier /\ UNCHANGED <<shows, wifiLock>>
     \/ wifiLock' = ~wifiLock /\ UNCHANGED <<shows, carrier>>
  /\ UNCHANGED <<offset, cache, streak, ccSeen, limited, connects, proxyDown, episode,
                 recovered, running, scripts, cooling, resumes, wave>>

ConnNext ==
  \/ PollConnectivity \/ UpEnds \/ WaitEnds \/ SmartEnds \/ ResumeWave \/ PollAcks
  \/ \E t \in Timers : Timer(t)
  \/ Change

\* The interval, and clocks that run.  Scripts need not end.
ConnFairness ==
  /\ WF_connVars(PollConnectivity) /\ WF_connVars(PollAcks)
  /\ \A t \in Timers : WF_connVars(Timer(t))

ConnSpec == ConnInit /\ [][ConnNext]_connVars /\ ConnFairness

-----------------------------------------------------------------------------
(* What recovery must keep to *)

\* One script at a time touches the carrier, through rising edges of both
\* kinds, the chain from the smart restart to the wait, and acks that end an
\* episode while its script runs; and recoveryRunning tells whether one does.
OneScript ==
  /\ scripts["up"] + scripts["smart"] + scripts["wait"] <= 1
  /\ running <=> scripts["up"] + scripts["smart"] + scripts["wait"] = 1

\* When no pane shows a limit any more, the borders and both episodes are over
\* in the end: every pane that was marked is scanned again, however the
\* batches fall, and whatever scripts and resumes do meanwhile.
LimitsPass ==
  <>[](~wifiLock /\ \A p \in Pane : shows[p] \in {"fine", "blank"})
    => <>[](limited = {} /\ ~proxyDown /\ ~episode)

=============================================================================
