------------------------------- MODULE Weather ------------------------------
(***************************************************************************)
(* Weather alerts (internal/weather): one goroutine asks the National      *)
(* Weather Service (NWS, external) what is in force, decides what to send  *)
(* and hands it to the DMR listener, with the lock released while it asks  *)
(* and while it sends; the operator's saves (Apply) come in between, and   *)
(* so do the NWS's own changes and a restart, which loses all memory.      *)
(*                                                                         *)
(* A bulletin is a number, in the order of issue; what it says is a        *)
(* constant.  Zone codes are names the NWS knows or does not; the text,    *)
(* the page's views and the reference number are left out, and so is the   *)
(* wake channel: a poll may begin whenever the loop waits.                 *)
(***************************************************************************)
EXTENDS Integers, Sequences, FiniteSets

CONSTANTS
  Bulletins,            \* 1..n
  Bulletin,             \* number -> [event, zones, until, end, refs, kind]; 0 is no time
  Zones, UnknownZones,  \* codes the operator may enter, and those the NWS refuses
  Watches,              \* the events that are not warnings (rank)
  WxSettings,           \* the Settings the operator saves
  CanTransmit,          \* there is a DMR listener to send on (Sender)
  AlertGap, AlertLimit, AlertWindow,   \* Pacing
  ExtensionSlack, SentMemory,
  MaxHour, MaxSaves, MaxStops          \* bounds

ASSUME WeatherAssumption ==
  /\ IsFiniteSet(Bulletins) /\ Bulletins = 1..Cardinality(Bulletins)
  /\ UnknownZones \subseteq Zones
  /\ \A b \in Bulletins : Bulletin[b].kind \in {"actual", "test", "cancel"} /\ Bulletin[b].until \in Nat
  /\ \A b \in Bulletins : /\ Bulletin[b].zones \subseteq Zones \ UnknownZones
                          /\ \A r \in Bulletin[b].refs : r < b
  /\ SentMemory \in Nat
  /\ \A set \in WxSettings : set.zones \subseteq Zones

VARIABLES
  wx,          \* settings: [enabled, transmit, zones, events]
  applied, baselined,
  zoneRefused, \* the zoneProblems that are unknownProblem
  airings,     \* sent: bulletin -> airing, NoAiring where it has none
  decided,     \* bulletin -> the reason it was held, "send", or "none"
  queue,       \* the bulletins waiting; none waits twice
  sending,     \* 0 is none
  went,        \* sentTimes
  loop,        \* Run: [at, set, current, began, answer]
  issued, inForce,          \* the NWS
  old,         \* the bulletins issued before this process began (started)
  hour, saves, stops,
  aired,       \* history: heard since this process began or alerts were last turned on
  heardBefore  \* history: heard earlier, and in the operator's choice ever since

weatherVars == <<wx, applied, baselined, zoneRefused, airings, decided, queue, sending,
                 went, loop, issued, inForce, old, hour, saves, stops, aired, heardBefore>>
nws == <<issued, inForce>>
memory == <<wx, applied, baselined, zoneRefused, airings, decided, queue>>
history == <<old, hour, saves, stops, aired, heardBefore>>

NoAiring == [known |-> FALSE, until |-> 0, event |-> "none", end |-> 0, at |-> 0]
Waiting == [at |-> "waiting", set |-> {}, current |-> TRUE, began |-> 0, answer |-> {}]
Flushing == [Waiting EXCEPT !.at = "flushing"]
Nothing == [b \in Bulletins |-> "none"]

(***************************************************************************)
(* decide.go: the filter, in its order.                                    *)
(***************************************************************************)
Covers(b, set) == Bulletin[b].zones \cap set.zones # {}
Chosen(b, set) == Bulletin[b].event \in set.events
AskedFor(b, set) == set.enabled /\ Bulletin[b].kind = "actual" /\ Covers(b, set) /\ Chosen(b, set)
Over(b, t) == Bulletin[b].until # 0 /\ t >= Bulletin[b].until

Decide(b, set, sent, t) ==
  IF Bulletin[b].kind = "test" THEN "not real"
  ELSE IF Bulletin[b].kind = "cancel" THEN "cancel"
  ELSE IF ~Covers(b, set) THEN "not here"
  ELSE IF ~Chosen(b, set) THEN "not chosen"
  ELSE IF Over(b, t) THEN "expired"
  ELSE IF sent[b].known THEN "already sent"
  ELSE IF \E r \in Bulletin[b].refs : sent[r].known THEN "update"
  ELSE "send"

(* The airing of its chain the stations heard last. *)
Told(b, sent) ==
  LET known == {r \in Bulletin[b].refs : sent[r].known}
      latest == {r \in known : \A q \in known : sent[q].at <= sent[r].at}
  IN  sent[CHOOSE r \in latest : \A q \in latest : r <= q]

(* A different event, or an end later than the stations were told of.      *)
IsNews(b, sent) ==
  \/ Bulletin[b].event # Told(b, sent).event
  \/ /\ Bulletin[b].end # 0 /\ Told(b, sent).end # 0
     /\ Bulletin[b].end - Told(b, sent).end > ExtensionSlack

Reason(b, set, sent, t) ==
  LET first == Decide(b, set, sent, t)
      second == IF first = "update" /\ IsNews(b, sent) THEN "send" ELSE first
  IN  IF second = "send" /\ ~baselined /\ b \in old THEN "baseline" ELSE second

Airing(b, reason, sent, t) ==
  LET own == [known |-> TRUE, event |-> Bulletin[b].event, end |-> Bulletin[b].end, at |-> t,
              until |-> IF Bulletin[b].until = 0 THEN t ELSE Bulletin[b].until]
      told == Told(b, sent)
  IN  IF reason = "update" THEN [own EXCEPT !.event = told.event, !.end = told.end, !.at = told.at]
      ELSE own

(* A bulletin that comes for the first time is decided on; of one that is  *)
(* sent, or counts as sent, the airing is remembered.                      *)
Undecided(b, answer) == b \in answer /\ decided[b] = "none"
Remembered(b, set, answer, sent, t) ==
  LET reason == Reason(b, set, sent, t)
  IN  IF Undecided(b, answer) /\ reason \in {"send", "baseline", "update"}
      THEN Airing(b, reason, sent, t) ELSE airings[b]

(* The table of airings each bulletin is judged by: the oldest come first, *)
(* so that an update finds the airing of what it updates.                  *)
Judged(set, answer, t) ==
  LET before[k \in Bulletins] ==
        IF k = 1 THEN airings
        ELSE [before[k - 1] EXCEPT ![k - 1] = Remembered(k - 1, set, answer, before[k - 1], t)]
  IN  before

(***************************************************************************)
(* Apply.  An alert still waiting was remembered as sent when it was       *)
(* decided, and is decided again; one that is going out this instant stays *)
(* remembered.                                                             *)
(***************************************************************************)
(* Mutant: one that is going out is decided again too. *)
ForgottenAll == [b \in Bulletins |-> IF b \in queue THEN NoAiring ELSE airings[b]]
Forgotten == [b \in Bulletins |-> IF b \in queue \ {sending} THEN NoAiring ELSE airings[b]]
OnlySending(sent) == [b \in Bulletins |-> IF b = sending THEN sent[b] ELSE NoAiring]

(* forget. *)
Forgets == airings' = Forgotten /\ decided' = Nothing /\ queue' = {}

TurnsOn(set) == set.enabled /\ (~wx.enabled \/ (set.transmit /\ ~wx.transmit))
Chooses(set) == set.zones # wx.zones \/ set.events # wx.events

Adopts(set) ==
  IF ~set.enabled THEN Forgets /\ UNCHANGED baselined
  ELSE IF ~applied THEN Forgets /\ baselined' = FALSE
  ELSE IF TurnsOn(set)
    THEN /\ airings' = OnlySending(Forgotten) /\ decided' = Nothing /\ queue' = {}
         /\ baselined' = TRUE
  ELSE IF Chooses(set) THEN Forgets /\ UNCHANGED baselined
  ELSE /\ queue' = IF set.transmit THEN queue ELSE {}
       /\ UNCHANGED <<airings, decided, baselined>>

(* A poll that is out was asked under the settings before (generation).    *)
Apply(set) ==
  /\ wx' = set /\ applied' = TRUE
  /\ Adopts(set)
  /\ zoneRefused' = IF set.zones = wx.zones THEN zoneRefused ELSE {}
  /\ loop' = [loop EXCEPT !.current = loop.at \notin {"looking", "asking", "answered"}]
  /\ UNCHANGED <<sending, went, nws, old, hour, stops>>

Saves(set) ==
  /\ applied /\ saves < MaxSaves
  /\ Apply(set) /\ saves' = saves + 1
  /\ IF applied /\ TurnsOn(set)
       THEN aired' = {} /\ heardBefore' = {}
       ELSE aired' = aired /\ heardBefore' = {b \in heardBefore : AskedFor(b, set)}

(* The first Apply is the program's, with the settings of the file.        *)
Starts == ~applied /\ Apply(wx) /\ UNCHANGED <<saves, aired, heardBefore>>

(***************************************************************************)
(* Poll: the settings are read, then the codes not known are looked up (a  *)
(* failed lookup leaves a code as it was), then the alerts are asked for.  *)
(***************************************************************************)
PollBegins ==
  /\ loop.at = "waiting" /\ applied /\ wx.enabled /\ wx.zones # {}
  /\ loop' = [at |-> "looking", set |-> wx, current |-> TRUE, began |-> hour, answer |-> {}]
  /\ UNCHANGED <<memory, sending, went, nws, history>>

LooksUp ==
  /\ loop.at = "looking"
  /\ \E reached \in SUBSET ((loop.set.zones \cap UnknownZones) \ zoneRefused) :
       zoneRefused' = zoneRefused \cup reached
  /\ loop' = IF loop.set.zones \subseteq zoneRefused' THEN Flushing ELSE [loop EXCEPT !.at = "asking"]
  /\ UNCHANGED <<wx, applied, baselined, airings, decided, queue, sending, went, nws, history>>

(* The NWS answers for the codes it was given, at one moment.              *)
Answers ==
  /\ loop.at = "asking"
  /\ loop' = [loop EXCEPT !.at = "answered",
                          !.answer = {b \in inForce : Bulletin[b].zones \cap (loop.set.zones \ zoneRefused) # {}}]
  /\ UNCHANGED <<memory, sending, went, nws, history>>

PollFails ==
  /\ loop.at \in {"looking", "asking"}
  /\ loop' = Flushing
  /\ UNCHANGED <<memory, sending, went, nws, history>>

(* Mutant: an answer is applied though the settings were saved meanwhile.  *)
OutdatedNever == FALSE
Outdated == ~loop.current

(* decide. *)
Decides ==
  /\ loop.at = "answered"
  /\ loop' = Flushing
  /\ IF Outdated THEN UNCHANGED <<airings, decided, queue, baselined>>
     ELSE \E before \in {Judged(loop.set, loop.answer, loop.began)} :
       LET reason(b) == Reason(b, loop.set, before[b], loop.began)
           airing(b) == Remembered(b, loop.set, loop.answer, before[b], loop.began)
       IN  /\ baselined' = TRUE
           /\ airings' = [b \in Bulletins |-> IF loop.began - airing(b).until > SentMemory
                                              THEN NoAiring ELSE airing(b)]
           /\ decided' = [b \in Bulletins |-> IF Undecided(b, loop.answer) THEN reason(b)
                                              ELSE IF b \in loop.answer THEN decided[b] ELSE "none"]
           /\ queue' = {b \in loop.answer :
                          b \in queue \/ (Undecided(b, loop.answer) /\ reason(b) = "send" /\ loop.set.transmit)}
  /\ UNCHANGED <<wx, applied, zoneRefused, sending, went, nws, history>>

(***************************************************************************)
(* Flush: what has expired comes off, then one alert goes out if the       *)
(* pacing lets it, warnings before watches and the oldest first.           *)
(***************************************************************************)
Recent == SelectSeq(went, LAMBDA t : hour - t < AlertWindow)
Rank(b) == IF Bulletin[b].event \in Watches THEN 1 ELSE 0
Precedes(b, c) == Rank(b) < Rank(c) \/ (Rank(b) = Rank(c) /\ b < c)
Foremost(B) == CHOOSE b \in B : \A c \in B \ {b} : Precedes(b, c)
Paced == \/ Recent # <<>> /\ hour - Recent[Len(Recent)] < AlertGap
         \/ Len(Recent) >= AlertLimit

Flush ==
  /\ loop.at \in {"waiting", "flushing"}
  /\ \E kept \in {{b \in queue : ~Over(b, hour)}} :
       LET idle == kept = {} \/ ~wx.enabled \/ ~wx.transmit \/ ~CanTransmit
       IN  /\ queue' = kept
           /\ went' = IF idle THEN went ELSE Recent
           /\ IF idle \/ Paced
                THEN loop' = Waiting /\ UNCHANGED sending
                ELSE /\ sending' = Foremost(kept)
                     /\ loop' = [Waiting EXCEPT !.at = "sending", !.began = hour]
  /\ UNCHANGED <<wx, applied, baselined, zoneRefused, airings, decided, nws, history>>

(* SendLocalText starts the text, or says that the timeslot or the server's*)
(* own texting is busy.                                                    *)
Sent ==
  /\ loop.at = "sending"
  /\ queue' = queue \ {sending}
  /\ went' = Append(went, loop.began)
  /\ sending' = 0 /\ loop' = Waiting
  /\ aired' = aired \cup {sending}
  /\ UNCHANGED <<wx, applied, baselined, zoneRefused, airings, decided, nws,
                 old, hour, saves, stops, heardBefore>>

SendRefused ==
  /\ loop.at = "sending"
  /\ sending' = 0 /\ loop' = Waiting
  /\ UNCHANGED <<memory, went, nws, history>>

(***************************************************************************)
(* The NWS, time and the process.                                          *)
(***************************************************************************)
(* An update takes the place of what it refers to. *)
Issues(b) ==
  /\ b \notin issued /\ \A c \in Bulletins : c < b => c \in issued
  /\ issued' = issued \cup {b}
  /\ inForce' = (inForce \ Bulletin[b].refs) \cup {b}
  /\ UNCHANGED <<memory, sending, went, loop, history>>

Withdraws(b) ==
  /\ b \in inForce /\ inForce' = inForce \ {b}
  /\ UNCHANGED <<issued, memory, sending, went, loop, history>>

HourPasses ==
  /\ hour < MaxHour /\ hour' = hour + 1
  /\ UNCHANGED <<memory, sending, went, loop, nws, old, saves, stops, aired, heardBefore>>

(* A text being handed over dies with the process. *)
WeatherRestarts ==
  /\ applied /\ stops < MaxStops /\ stops' = stops + 1
  /\ applied' = FALSE /\ baselined' = FALSE /\ zoneRefused' = {}
  /\ airings' = [b \in Bulletins |-> NoAiring] /\ decided' = Nothing
  /\ queue' = {} /\ sending' = 0 /\ went' = <<>> /\ loop' = Waiting
  /\ old' = issued
  /\ heardBefore' = {b \in heardBefore \cup aired : AskedFor(b, wx)} /\ aired' = {}
  /\ UNCHANGED <<wx, nws, hour, saves>>

WeatherInit ==
  /\ wx \in WxSettings
  /\ applied = FALSE /\ baselined = FALSE /\ zoneRefused = {}
  /\ airings = [b \in Bulletins |-> NoAiring] /\ decided = Nothing
  /\ queue = {} /\ sending = 0 /\ went = <<>> /\ loop = Waiting
  /\ issued = {} /\ inForce = {} /\ old = {}
  /\ hour = 0 /\ saves = 0 /\ stops = 0 /\ aired = {} /\ heardBefore = {}

Alerting ==
  \/ Starts \/ \E set \in WxSettings : Saves(set)
  \/ PollBegins \/ LooksUp \/ Answers \/ PollFails \/ Decides
  \/ Flush \/ Sent \/ SendRefused
  \/ \E b \in Bulletins : Issues(b) \/ Withdraws(b)
  \/ HourPasses \/ WeatherRestarts

(***************************************************************************)
(* Properties                                                              *)
(***************************************************************************)
(* What waits to go on the air is what the operator asks for now, of the   *)
(* areas and kinds chosen, whatever was saved while a poll was out         *)
(* (service.go, generation: decided under settings that no longer apply).  *)
QueueIsAsked ==
  queue # {} => wx.transmit /\ \A b \in queue : AskedFor(b, wx)

(* No alert goes on the air twice, unless the operator turned alerts on    *)
(* in between: not when settings are saved while it is being sent, nor     *)
(* after a restart (Apply: "Only a restart is silent"), nor because what   *)
(* was sent is forgotten in the end.  Only of one that never ends is it    *)
(* forgotten while it may still be in force (decide, sentMemory).          *)
NotTwice ==
  [][Sent /\ sending \in aired \cup heardBefore => Bulletin[sending].until = 0]_weatherVars
=============================================================================
