----------------------------- MODULE MCStations -----------------------------
(***************************************************************************)
(* What puts audio on the air or takes it from there, for TLC, one machine *)
(* at a time: a Motorola repeater heard ("in") and sent to ("out", where   *)
(* not being let in is like being silent), the parrot and composed texts   *)
(* ("playback"), the two ends of a USRP socket, a vocoder channel          *)
(* ("vocoder") and the Zello connector ("zello"), and the weather alerts   *)
(* ("weather"); and the bursts themselves on their way ("bursts").  They   *)
(* share no state but the timeslot's use, which Playback and Weather each  *)
(* read as free or busy, and each end of the socket takes what the other   *)
(* may send as frames in any order.                                        *)
(***************************************************************************)
EXTENDS Ipsc, Playback, Vocoder, Zello, Weather, BurstCodes

CONSTANTS MaxTroubles  \* bound: hours, saves and restarts of a weather run

VARIABLE part
voiceVars == <<vocoderVars, zelloVars>>
stationVars == <<ipscVars, playbackVars, voiceVars, weatherVars>>
vars == <<part, stationVars, burstVars>>

(* Two warnings for one zone, the second an update of the first, and a     *)
(* watch for another.                                                      *)
Says(event, zones, until, refs) ==
  [event |-> event, zones |-> zones, until |-> until, end |-> until, refs |-> refs,
   kind |-> "actual"]
MCBulletin == <<Says("warning", {"east"}, 3, {}), Says("watch", {"west"}, 2, {}),
                Says("warning", {"east"}, 3, {1})>>

On(zones, events, transmit) ==
  [enabled |-> TRUE, transmit |-> transmit, zones |-> zones, events |-> events]
MCSettings == {On({"east", "none"}, {"warning"}, TRUE),
               On({"east", "west"}, {"warning", "watch"}, TRUE),
               On({"east", "west"}, {"warning", "watch"}, FALSE),
               [On({"east"}, {"warning"}, TRUE) EXCEPT !.enabled = FALSE]}

(* One of each thing a burst carries, with bits that no code leaves alone, *)
(* and an alias of every length in both widths.                            *)
Some(n, a) == {i \in 0 .. n - 1 : (i * i + a * i) % 7 \in {1, 3}}
Datagram(n, a) == {1, 5, 7} \cup (Some(n, a) \cap (8 .. n - 1))
MCLoads ==
  {[kind |-> "speech", core |-> {i \in Some(150, 1) : i % 50 # 49}, position |-> 4,
    colourCode |-> 11, fragment |-> Some(32, 2)]}
  \cup [kind : {"control"}, dataType : {VoiceLCHeader, TerminatorWithLC}, lc : {Some(72, 3)},
        colourCode : {4}]
  \cup [kind : {"embedded"}, lc : {Some(72, 1), Some(72, 2)}, colourCode : {1}]
  \cup {[kind |-> "alias", chars |-> [i \in 1 .. n |-> 48 + i], width |-> w] :
          n \in 1 .. 31, w \in {7, 8}}
  \cup {[kind |-> "confirmed", payload |-> Datagram(200, 1), octets |-> 25, colourCode |-> 2]}
  \cup {[kind |-> "group", payload |-> Datagram(160, 4), octets |-> 20, colourCode |-> 2,
         to |-> 91, from |-> 3151234]}

Init == /\ part \in {"in", "out", "playback", "vocoder", "zello", "weather", "bursts"}
        /\ IpscInit /\ PlaybackInit /\ VocoderInit /\ ZelloInit /\ WeatherInit
        /\ IF part = "bursts" THEN BurstInit ELSE BurstIdle
        /\ wx = On({"east", "none"}, {"warning"}, TRUE)

Next ==
  \/ /\ part = "in" /\ (HearsNext \/ EitherNext)
     /\ UNCHANGED <<part, playbackVars, voiceVars, weatherVars, burstVars>>
  \/ /\ part = "out" /\ (SendsNext \/ EitherNext)
     /\ UNCHANGED <<part, playbackVars, voiceVars, weatherVars, burstVars>>
  \/ /\ part = "playback" /\ (Recording \/ TextStarts \/ Playing)
     /\ UNCHANGED <<part, ipscVars, voiceVars, weatherVars, burstVars>>
  \/ /\ part = "vocoder" /\ (Channelling \/ Supervising)
     /\ UNCHANGED <<part, ipscVars, playbackVars, zelloVars, weatherVars, burstVars>>
  \/ /\ part = "zello" /\ Zelloing
     /\ UNCHANGED <<part, ipscVars, playbackVars, vocoderVars, weatherVars, burstVars>>
  \/ /\ part = "weather" /\ Alerting /\ hour' + saves' + stops' <= MaxTroubles
     /\ UNCHANGED <<part, ipscVars, playbackVars, voiceVars, burstVars>>
  \/ part = "bursts" /\ BurstNext /\ UNCHANGED <<part, stationVars>>

Spec == Init /\ [][Next]_vars
=============================================================================
