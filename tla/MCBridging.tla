----------------------------- MODULE MCBridging -----------------------------
(***************************************************************************)
(* Bridging for TLC: a net on the calendar and a link opened on demand, in *)
(* zones west and east of Greenwich whose clocks go back or forward.       *)
(***************************************************************************)
EXTENDS Bridging, TLC

CONSTANTS net, link,
          west, east, spring  \* zones: the clock goes back, back, forward

MCClockChange  == west :> 6 @@ east :> 5 @@ spring :> 5
MCOffsetBefore == west :> -1 @@ east :> 2 @@ spring :> 1
MCOffsetAfter  == west :> -2 @@ east :> 1 @@ spring :> 2

Window(bridge, zone, days, start, duration) ==
  [bridge |-> bridge, zone |-> zone, days |-> days, start |-> start, duration |-> duration,
   enabled |-> TRUE]

OnDemand(bridge, on) == [bridge |-> bridge, on |-> on, enabled |-> TRUE]

(* A net that ends after midnight, and one when the clock reads midnight   *)
(* twice.                                                                  *)
Scheduled == [windows |-> {Window(net, west, {0}, 3, 2), Window(net, west, {1}, 0, 1)},
              triggers |-> {}, on |-> {link}]

(* A net in the hour that is repeated, and a link that is on demand and    *)
(* scheduled in the hour that is skipped.                                  *)
Both == [windows |-> {Window(net, east, {0, 1}, 2, 2), Window(link, spring, {0, 1}, 2, 1)},
         triggers |-> {OnDemand(link, {Repeater})}, on |-> {}]

Demand == [windows |-> {},
           triggers |-> {OnDemand(link, Stations), OnDemand(net, {Hotspot})}, on |-> {net}]

Plain == [windows |-> {}, triggers |-> {}, on |-> {net}]

MCConfigs == {Scheduled, Both, Demand, Plain}
=============================================================================
