------------------------------ MODULE Settings ------------------------------
(***************************************************************************)
(* The configuration document (internal/config), what Validate refuses in  *)
(* it, and what a start makes of it (build and run in cmd/qsp/app.go).     *)
(* "A configuration that is saved must be one the server starts with".     *)
(*                                                                         *)
(* A document is a record of sections; a section is a record of settings,  *)
(* or a sequence of records.  Settings take representative values: both    *)
(* sides of every limit, and the empty text.  A name written in capitals   *)
(* is another spelling of the name in small letters.  A start is of a      *)
(* machine on which every file, directory and database the document names  *)
(* can be used.                                                            *)
(***************************************************************************)
EXTENDS Access

CONSTANT MaxEdits   \* settings that may be changed from a starting document

VARIABLES doc,      \* the document
          edits     \* how many settings have been changed

settingsVars == <<doc, edits>>

Fold(name) == CASE name = "NET"  -> "net"  [] name = "LINK" -> "link"
                [] name = "VOC"  -> "voc"  [] OTHER -> name

(* The limits, in the units of the settings they limit.                    *)
MaxPort == 65535
MaxSessionLifetime == 604800
MaxHangTime == 1800
maxWindowDuration == 720
MaxRepeaterHoldMS == 200
MaxGateways == 10000

(* An address: a blank one has port -1, one that is not host:port has a    *)
(* port out of range, and spaces around it are its padding.                *)
At(host, port) == [host |-> host, port |-> port, padded |-> FALSE]
Padded(a) == [a EXCEPT !.padded = TRUE]
NoAddress == At(Blank, -1)
hostPort(a) == a.port \in 0..MaxPort
unspecifiedHost(a) == a.host = "any"
Addresses == {NoAddress, At("any", 70000), At("any", 1), At("lo", 1), At("lo", 2)}

reachableBeyondHost(a) == a.host # "lo"

-----------------------------------------------------------------------------
(* The settings of each section and the values they take here.             *)
ZelloFields == [enabled |-> BOOLEAN, health |-> {Blank, "loopback", "elsewhere"},
                socket |-> {Blank, "relative", "absolute"}, issuer |-> {Blank, "set"},
                channel |-> {Blank, "set"}]
ServerFields == [version |-> {0, 1, 2}, addr |-> Addresses, timeouts |-> {0, 5},
                 session |-> {0, 30, 60, 604800, 604801}]
MapFields == [tiles |-> {Blank, "template", "plain"}, attribution |-> {Blank, "set"}, zoom |-> {0, 18, 23}]
DatabaseFields == [driver |-> {Blank, "sqlite", "other"}, dsn |-> {Blank, "qsp.db"}, conns |-> {0, 4}]
LoggingFields == [level |-> {"info", "loud"}, format |-> {"text", "xml"}]
EventsFields == [history |-> {0, 256}, buffer |-> {0, 64}]
P25RepeatersFields == [enabled |-> BOOLEAN, addr |-> Addresses, site |-> {0, 127, 128},
                       hold |-> {-1, 0, 200, 201}, presentAs |-> {Blank, "console", "other"},
                       routers |-> {<<>>, <<"address">>, <<"text">>}]
P25Fields == [enabled |-> BOOLEAN, addr |-> Addresses, gateways |-> {-1, 0, 10001},
              calls |-> {<<>>, <<Blank>>, <<"K9MLS">>}]
IPSCFields == [enabled |-> BOOLEAN, addr |-> Addresses, master |-> {0, 1},
               allowed |-> {{}, {1}, {2}}, names |-> {Blank, "named", "blank", "long"},
               timeout |-> {-1, 0}, colour |-> {-1, 0, 15, 16}]
DMRFields == [enabled |-> BOOLEAN, addr |-> Addresses, password |-> {Blank, "file"},
              peers |-> {Blank, "relative", "file", "dir"}, timeouts |-> {0, 60},
              forwarding |-> BOOLEAN, callsign |-> {Blank, "K9MLS"}]
ParrotFields == [enabled |-> BOOLEAN, tg |-> {0, 9}, slot |-> 0..3, most |-> {-1, 300, 301}, gap |-> {-1, 60, 61}]
CallsignsFields == [enabled |-> BOOLEAN, contact |-> {Blank, "mail"}]
SubscriptionFields == [enabled |-> BOOLEAN, timeout |-> {0, 15}, peer |-> {0, 1}, tg |-> {0, 9}, slot |-> 0..3]
AccessFields == [given |-> BOOLEAN, reg |-> {Blank, "permit", "Permit"}, subs |-> {"deny", "permit"},
                 ids |-> {<<>>, <<Span(1, 2)>>, <<Span(2, 1)>>}]
NarrowEvents == <<"the five of the first page">>
WeatherFields == [enabled |-> BOOLEAN, zones |-> {<<>>, <<"TXC121">>, <<"txc121">>, <<"Texas">>},
                  events |-> {<<>>, <<Blank>>, <<"* Warning">>, NarrowEvents}, tg |-> {0, 9}, slot |-> 1..3,
                  sender |-> {0, 1}, contact |-> {Blank, "mail"}]
EndpointFields == [peer |-> {0, 1}, upstream |-> {Blank, "link", "LINK"},
                   transcoder |-> {Blank, "voc", "VOC"}, tg |-> {0, 9}, slot |-> 0..3]
BridgeFields == [name |-> {Blank, "net", "NET"}, enabled |-> BOOLEAN]
TriggerFields == [bridge |-> {Blank, "net", "NET"}, on |-> {0, 1}, tg |-> {0, 9}, slot |-> 0..3, hang |-> {-1, 180, 1801}]
WindowFields == [bridge |-> {Blank, "net", "NET"}, days |-> {<<>>, <<2>>, <<7>>, <<2, 2>>},
                 start |-> {"20:00", "24:00"}, minutes |-> {0, 1, 720, 721}, zone |-> {Blank, "America/Chicago", "CST"}]
UpstreamFields == [name |-> {Blank, "link", "LINK"}, protocol |-> {"qsp", "homebrew", "openbridge", "other"},
                   enabled |-> BOOLEAN, addr |-> {NoAddress, At("any", 70000), At("far", 0), At("far", 1)},
                   listen |-> Addresses, network |-> {0, 1}, passphrase |-> {Blank, "file"},
                   id |-> {0, 1, 7}, password |-> {Blank, "file"},
                   identity |-> {"none", "blank", "own"}, slots |-> {0, 2, 3}, stale |-> {-1, 0}]
TranscoderFields == [name |-> {Blank, "voc", "VOC"}, enabled |-> BOOLEAN,
                     addr |-> {NoAddress, At("any", 70000), At("far", 2)},
                     listen |-> {NoAddress, At("lo", 2), At("lo", 3), Padded(At("lo", 3))},
                     peer |-> {NoAddress, At("any", 4), At("lo", 3), At("lo", 4), At("far", 2)},
                     rate |-> {-1, 0, 62}, gain |-> {-21, 0, 21}, radio |-> {0, 1, 16776416},
                     alias |-> {0, 31, 32}, permit |-> {{}, {0}, {1}}, all |-> BOOLEAN]
JoinFields == [name |-> {Blank, "chat"}, dialled |-> {0, 9}, arrives |-> {0, 8}, slot |-> 0..3]

PlainFields ==
  [zello |-> ZelloFields, server |-> ServerFields, map |-> MapFields, database |-> DatabaseFields,
   logging |-> LoggingFields, events |-> EventsFields, repeaters |-> P25RepeatersFields,
   p25 |-> P25Fields, ipsc |-> IPSCFields, dmr |-> DMRFields, parrot |-> ParrotFields,
   callsigns |-> CallsignsFields, subscription |-> SubscriptionFields, access |-> AccessFields,
   weather |-> WeatherFields]
ListFields ==
  [bridges |-> BridgeFields, triggers |-> TriggerFields, schedule |-> WindowFields,
   upstreams |-> UpstreamFields, transcoders |-> TranscoderFields, join |-> JoinFields]

(* Default: what a document that says nothing gets.                        *)
Default ==
  [zello |-> [enabled |-> FALSE, health |-> Blank, socket |-> Blank, issuer |-> Blank, channel |-> Blank],
   server |-> [version |-> 1, addr |-> At("lo", 8080), timeouts |-> 5, session |-> 43200],
   map |-> [tiles |-> "template", attribution |-> "set", zoom |-> 18],
   database |-> [driver |-> "sqlite", dsn |-> "qsp.db", conns |-> 4],
   logging |-> [level |-> "info", format |-> "text"],
   events |-> [history |-> 256, buffer |-> 64],
   repeaters |-> [enabled |-> FALSE, addr |-> NoAddress, site |-> 0, hold |-> 60, presentAs |-> Blank, routers |-> <<>>],
   p25 |-> [enabled |-> FALSE, addr |-> NoAddress, gateways |-> 0, calls |-> <<>>],
   ipsc |-> [enabled |-> FALSE, addr |-> NoAddress, master |-> 0, allowed |-> {}, names |-> Blank, timeout |-> 0, colour |-> -1],
   dmr |-> [enabled |-> FALSE, addr |-> At("any", 62031), password |-> Blank, peers |-> Blank, timeouts |-> 60,
            forwarding |-> FALSE, callsign |-> Blank],
   parrot |-> [enabled |-> FALSE, tg |-> 0, slot |-> 0, most |-> 0, gap |-> 0],
   callsigns |-> [enabled |-> FALSE, contact |-> Blank],
   subscription |-> [enabled |-> FALSE, timeout |-> 15, peer |-> 1, tg |-> 9, slot |-> 1],
   access |-> [given |-> FALSE, reg |-> Blank, subs |-> "deny", ids |-> <<>>],
   weather |-> [enabled |-> FALSE, zones |-> <<>>, events |-> <<>>, tg |-> 0, slot |-> 1, sender |-> 0, contact |-> Blank],
   bridges |-> <<>>, triggers |-> <<>>, schedule |-> <<>>, upstreams |-> <<>>, transcoders |-> <<>>, join |-> <<>>]

-----------------------------------------------------------------------------
(* Validate, section by section: TRUE where it adds no problem.            *)
HomebrewProtocol(u) == u.protocol \in {"homebrew", "qsp"}
QSPLink(u) == u.protocol = "qsp"
Enabled(list) == {i \in DOMAIN list : list[i].enabled}
Endpoints(d) == UNION {ToSet(d.bridges[i].endpoints) : i \in DOMAIN d.bridges}
Links(d) == {Fold(d.upstreams[i].name) : i \in Enabled(d.upstreams)}
OpenBridgeLinks(d) == {Fold(d.upstreams[i].name) :
                         i \in {j \in Enabled(d.upstreams) : ~HomebrewProtocol(d.upstreams[j])}}
Vocoders(d) == {Fold(d.transcoders[i].name) : i \in Enabled(d.transcoders)} \ {Blank}
Reached(d) == {Fold(e.upstream) : e \in Endpoints(d)}
ReachedVocoder(d) == {Fold(e.transcoder) : e \in Endpoints(d)}
BridgeNames(d) == {Fold(d.bridges[i].name) : i \in DOMAIN d.bridges}

ValidZello(d) ==
  d.zello.enabled => /\ d.zello.health # "elsewhere"
                     /\ d.zello.socket = "absolute"
                     /\ d.zello.issuer # Blank /\ d.zello.channel # Blank
ValidServer(d) ==
  /\ d.server.version = 1 /\ hostPort(d.server.addr) /\ d.server.timeouts > 0
  /\ d.server.session # 0 => d.server.session \in 60..MaxSessionLifetime
  /\ d.map.tiles # Blank => d.map.tiles = "template" /\ d.map.attribution # Blank /\ d.map.zoom \in 1..22
ValidStores(d) ==
  /\ d.database.driver # Blank /\ d.database.dsn # Blank /\ d.database.conns > 0
  /\ d.logging.level # "loud" /\ d.logging.format # "xml"
ValidParrot(d) ==
  /\ d.callsigns.enabled => d.callsigns.contact # Blank
  /\ d.parrot.enabled => /\ d.parrot.tg # 0 /\ d.parrot.slot \in 1..2
                         /\ d.parrot.most \in 0..300 /\ d.parrot.gap \in 0..60
ValidP25Repeaters(d) ==
  d.repeaters.enabled => /\ hostPort(d.repeaters.addr) /\ d.repeaters.site <= 127
                         /\ d.repeaters.hold \in 0..MaxRepeaterHoldMS /\ d.repeaters.presentAs # "other"
                         /\ "text" \notin ToSet(d.repeaters.routers)
ValidP25(d) ==
  d.p25.enabled => /\ hostPort(d.p25.addr) /\ d.p25.gateways \in 0..MaxGateways
                   /\ Blank \notin ToSet(d.p25.calls)
ValidIPSC(d) ==   \* a name is given to repeater 2
  d.ipsc.enabled => /\ hostPort(d.ipsc.addr) /\ d.ipsc.master # 0 /\ d.ipsc.master \notin d.ipsc.allowed
                    /\ d.ipsc.names \notin {"blank", "long"}
                    /\ d.ipsc.names # Blank /\ d.ipsc.allowed # {} => 2 \in d.ipsc.allowed
                    /\ d.ipsc.timeout >= 0 /\ d.ipsc.colour \in 0..15
ValidListenerSettings(d) ==
  /\ hostPort(d.dmr.addr) /\ d.dmr.password # Blank /\ d.dmr.timeouts > 0
  /\ d.dmr.peers \notin {"relative", "file"}
ValidTranscoder(d, i) ==
  LET t == d.transcoders[i]
  IN  /\ t.name # Blank /\ ~\E j \in Enabled(d.transcoders) : j < i /\ Fold(d.transcoders[j].name) = Fold(t.name)
      /\ hostPort(t.addr)
      /\ t.enabled => /\ hostPort(t.listen) /\ hostPort(t.peer)
                      /\ ~unspecifiedHost(t.peer) /\ t.peer.port # 0
                      /\ <<t.listen.host, t.listen.port>> # <<t.peer.host, t.peer.port>>
                      /\ t.peer # t.addr /\ t.radio # 0
                      /\ ~(t.all /\ t.permit # {})
                      /\ Fold(t.name) \in ReachedVocoder(d)
      /\ t.gain \in -20..20 /\ t.rate \in 0..61 /\ 0 \notin t.permit
      /\ t.radio <= 16776415 /\ t.alias <= 31
ValidEndpoint(d, b, e) ==
  /\ e.tg # 0 /\ e.slot \in 1..2
  /\ e.transcoder # Blank =>
       /\ e.peer = 0 /\ e.upstream = Blank
       /\ \/ Fold(e.transcoder) \in Vocoders(d)
          \/ ~b.enabled /\ \E i \in DOMAIN d.transcoders : Fold(d.transcoders[i].name) = Fold(e.transcoder)
  /\ e.upstream # Blank =>
       /\ e.peer = 0 /\ Fold(e.upstream) \in Links(d)
       /\ Fold(e.upstream) \in OpenBridgeLinks(d) => e.slot = 1
ValidBridge(d, i) ==
  LET b == d.bridges[i]
  IN  /\ b.name # Blank /\ \A j \in DOMAIN d.bridges : j < i => Fold(d.bridges[j].name) # Fold(b.name)
      /\ Len(b.endpoints) >= 2 /\ IsInjective(b.endpoints)
      /\ \A k \in DOMAIN b.endpoints : ValidEndpoint(d, b, b.endpoints[k])
ValidTrigger(d, t) ==
  /\ t.bridge # Blank /\ Fold(t.bridge) \in BridgeNames(d) /\ t.hang \in 0..MaxHangTime
  /\ t.on # 0 /\ t.tg # 0 /\ t.slot \in 1..2
(* A homebrew link's callsign is its own or the server's (Identity.Merge). *)
ValidHomebrewUpstream(d, u) ==
  /\ u.id \notin {0, d.subscription.peer} /\ ~(d.ipsc.enabled /\ u.id = d.ipsc.master)
  /\ u.password # Blank /\ (u.identity = "own" \/ d.dmr.callsign # Blank)
  /\ u.identity # "none" => u.slots \in 0..2
ValidOpenBridgeUpstream(u) ==
  hostPort(u.listen) /\ u.network # 0 /\ u.passphrase # Blank /\ u.stale >= 0
ValidUpstream(d, i) ==
  LET u == d.upstreams[i]
  IN  /\ u.name # Blank /\ u.protocol # "other"
      /\ \A j \in DOMAIN d.upstreams : j < i => Fold(d.upstreams[j].name) # Fold(u.name)
      /\ u.enabled =>
           /\ hostPort(u.addr)
           /\ IF HomebrewProtocol(u) THEN ValidHomebrewUpstream(d, u) ELSE ValidOpenBridgeUpstream(u)
           /\ QSPLink(u) \/ Fold(u.name) \in Reached(d)
           /\ HomebrewProtocol(u) => \A j \in Enabled(d.upstreams) :
                j < i /\ HomebrewProtocol(d.upstreams[j]) => d.upstreams[j].id # u.id
Target(t) == IF t.arrives # 0 THEN t.arrives ELSE t.dialled
ValidJoin(d, i) ==
  LET t == d.join[i]
  IN  /\ t.name # Blank /\ t.dialled # 0 /\ t.slot \in 1..2
      /\ \A j \in DOMAIN d.join : j < i => <<Target(d.join[j]), d.join[j].slot>> # <<Target(t), t.slot>>
      /\ ~d.dmr.forwarding /\ d.bridges # <<>> => \E e \in Endpoints(d) : e.tg = Target(t) /\ e.slot = t.slot
ValidWindow(d, w) ==
  /\ w.bridge # Blank /\ Fold(w.bridge) \in BridgeNames(d)
  /\ w.days # <<>> /\ ToSet(w.days) \subseteq 0..6 /\ IsInjective(w.days)
  /\ w.start # "24:00" /\ w.minutes \in 1..maxWindowDuration /\ w.zone \notin {Blank, "CST"}
ValidSubscription(d) ==
  /\ d.events.history > 0 /\ d.events.buffer > 0
  /\ d.dmr.enabled /\ d.subscription.enabled =>
       /\ d.subscription.timeout > 0 /\ d.subscription.peer # 0
       /\ d.subscription.tg # 0 /\ d.subscription.slot \in 1..2
RegistrationList(d) == [mode |-> d.access.reg, ids |-> d.access.ids]
SubscriberList(d) == [mode |-> d.access.subs, ids |-> <<>>]
ValidAccess(d) ==
  d.dmr.enabled => IF d.access.given THEN d.access.subs # "permit" /\ ParseOK(RegistrationList(d))
                                     ELSE ~reachableBeyondHost(d.dmr.addr)
ValidWeather(d) ==
  d.weather.enabled => /\ d.weather.zones = <<"TXC121">> /\ d.weather.events # <<>> /\ Blank \notin ToSet(d.weather.events)
                       /\ d.weather.tg # 0 /\ d.weather.slot \in 1..2 /\ d.weather.sender # 0
                       /\ d.weather.contact # Blank \/ d.callsigns.contact # Blank

(* Listeners: the sockets Validate compares, each with the setting it is   *)
(* from.  P25's is not among them.                                         *)
Socket(field, net, addr) == [field |-> field, net |-> net, addr |-> addr]
Listeners(d) ==
       {Socket(<<"server", 0>>, "tcp", d.server.addr)}
  \cup (IF d.dmr.enabled THEN {Socket(<<"dmr", 0>>, "udp", d.dmr.addr)} ELSE {})
  \cup (IF d.ipsc.enabled THEN {Socket(<<"ipsc", 0>>, "udp", d.ipsc.addr)} ELSE {})
  \cup (IF d.repeaters.enabled THEN {Socket(<<"repeaters", 0>>, "tcp", d.repeaters.addr)} ELSE {})
  \cup {Socket(<<"upstreams", i>>, "udp", d.upstreams[i].listen) :
          i \in {j \in Enabled(d.upstreams) : ~HomebrewProtocol(d.upstreams[j])}}
  \cup (IF d.dmr.enabled
        THEN {Socket(<<"transcoders", i>>, "udp", d.transcoders[i].listen) : i \in Enabled(d.transcoders)}
        ELSE {})
listenersCollide(a, b) ==
  /\ a.net = b.net /\ a.addr.port = b.addr.port /\ hostPort(a.addr)
  /\ unspecifiedHost(a.addr) \/ unspecifiedHost(b.addr) \/ a.addr.host = b.addr.host

(* Mutant: only sockets written the same way are told apart. *)
ValidListenersApart(d) ==
  \A a, b \in Listeners(d) : a.field # b.field => <<a.net, a.addr>> # <<b.net, b.addr>>

ValidListeners(d) ==
  \A a, b \in Listeners(d) : a.field # b.field => ~listenersCollide(a, b)

Validate(d) ==
  /\ ValidZello(d) /\ ValidServer(d) /\ ValidStores(d) /\ ValidParrot(d)
  /\ ValidP25Repeaters(d) /\ ValidP25(d) /\ ValidIPSC(d)
  /\ d.dmr.enabled =>
       /\ ValidListenerSettings(d)
       /\ \A i \in DOMAIN d.transcoders : ValidTranscoder(d, i)
       /\ \A i \in DOMAIN d.bridges : ValidBridge(d, i)
       /\ \A i \in DOMAIN d.triggers : ValidTrigger(d, d.triggers[i])
       /\ \A i \in DOMAIN d.upstreams : ValidUpstream(d, i)
       /\ \A i \in DOMAIN d.join : ValidJoin(d, i)
       /\ \A i \in DOMAIN d.schedule : ValidWindow(d, d.schedule[i])
  /\ ValidSubscription(d) /\ ValidAccess(d) /\ ValidWeather(d) /\ ValidListeners(d)

(* Load upgrades an older document before it validates it.                 *)
openSubscribers(d) ==
  [d EXCEPT !.access.subs = IF d.access.given /\ @ = "permit" THEN "deny" ELSE @]
widenWeather(d) ==
  [d EXCEPT !.weather.zones = IF @ = <<"txc121">> THEN <<"TXC121">> ELSE @,
            !.weather.events = IF @ = NarrowEvents THEN <<"* Warning", "* Watch">> ELSE @]
Upgrade(d) == widenWeather(openSubscribers(d))

-----------------------------------------------------------------------------
(* A start: build, then run.  A section is TRUE where nothing refuses it.  *)
timeslot(n) == IF n = 2 THEN 2 ELSE 1

BuildsSchedule(d) ==   \* buildSchedule, NewSchedule, Window.Validate
  \A i \in DOMAIN d.schedule :
    LET w == d.schedule[i]
    IN  /\ w.start # "24:00" /\ w.bridge # Blank /\ w.days # <<>>
        /\ ToSet(w.days) \subseteq 0..6 /\ IsInjective(w.days)
        /\ w.minutes \in 1..maxWindowDuration /\ w.zone \notin {Blank, "CST"}
BuildsTriggers(d) ==   \* buildTriggers, NewTriggers, Trigger.Validate
  \A i \in DOMAIN d.triggers :
    LET t == d.triggers[i] IN t.bridge # Blank /\ t.on # 0 /\ t.tg # 0 /\ t.hang \in 0..MaxHangTime
Built(e) == [e EXCEPT !.slot = timeslot(@)]
BuiltEndpointOK(e) ==   \* routing.Endpoint.Validate
  /\ ~(e.upstream # Blank /\ e.transcoder # Blank) /\ e.tg # 0
  /\ (e.upstream # Blank \/ e.transcoder # Blank) => e.peer = 0
BuildsTable(d) ==   \* buildTable, NewTable, Bridge.Validate
  /\ \A i \in DOMAIN d.bridges :
       LET es == [k \in DOMAIN d.bridges[i].endpoints |-> Built(d.bridges[i].endpoints[k])]
       IN  /\ d.bridges[i].name # Blank /\ Len(es) >= 2 /\ IsInjective(es)
           /\ \A k \in DOMAIN es : BuiltEndpointOK(es[k])
  /\ \A i, j \in DOMAIN d.bridges : i # j => Fold(d.bridges[i].name) # Fold(d.bridges[j].name)
BuildsAccess(d) == d.access.given => ParseOK(RegistrationList(d)) /\ ParseOK(SubscriberList(d))
BuildsParrot(d) == d.parrot.enabled /\ (d.dmr.enabled \/ d.ipsc.enabled) => d.parrot.tg # 0
BuildsLink(d, u) ==   \* buildPeerLink or buildOpenBridgeLink, then Start
  /\ IF HomebrewProtocol(u)
     THEN u.identity # "none" /\ u.id # 0 /\ u.password # Blank /\ (u.identity = "own" \/ d.dmr.callsign # Blank)
     ELSE u.network # 0 /\ u.passphrase # Blank /\ hostPort(u.listen)
  /\ u.name # Blank /\ u.addr.port \in 1..MaxPort
BuildsLinks(d) ==   \* buildUpstreams and Set.Add
  /\ \A i \in Enabled(d.upstreams) : BuildsLink(d, d.upstreams[i])
  /\ \A i, j \in Enabled(d.upstreams) : i # j => d.upstreams[i].name # d.upstreams[j].name
BuildsTranscoders(d) ==   \* audio.Listen, vocoderlink.New, MustRegister
  /\ \A i \in Enabled(d.transcoders) :
       LET t == d.transcoders[i]
       IN  /\ hostPort(t.listen) /\ ~t.listen.padded /\ hostPort(t.peer)
           /\ ~unspecifiedHost(t.peer) /\ t.peer.port # 0
           /\ t.name # Blank /\ t.radio # 0 /\ t.alias <= 31
  /\ \A i, j \in Enabled(d.transcoders) : i # j => d.transcoders[i].name # d.transcoders[j].name
BuildsDMR(d) ==
  d.dmr.enabled => /\ d.dmr.password # Blank /\ BuildsAccess(d) /\ BuildsSchedule(d) /\ BuildsTriggers(d)
                   /\ d.dmr.forwarding => BuildsTable(d)
                   /\ BuildsLinks(d) /\ BuildsTranscoders(d)
BuildsZello(d) ==
  d.zello.enabled => d.database.driver = "sqlite" /\ d.zello.issuer # Blank /\ d.zello.channel # Blank
BuildsCallsigns(d) == d.callsigns.enabled => d.callsigns.contact # Blank
BuildsP25(d) ==
  d.repeaters.enabled => /\ d.repeaters.site <= 127 /\ d.repeaters.hold \in 0..MaxRepeaterHoldMS
                         /\ d.repeaters.presentAs # "other" /\ "text" \notin ToSet(d.repeaters.routers)
BuildsIPSC(d) ==
  d.ipsc.enabled => /\ d.ipsc.colour # -1 /\ d.ipsc.master # 0 /\ d.ipsc.master \notin d.ipsc.allowed
                    /\ d.dmr.enabled => d.ipsc.colour <= 15
(* Every socket run opens, a link's only with the DMR listener; the        *)
(* operating system refuses an address that is not one and a port that is  *)
(* taken, and gives a free port for port 0.                                *)
OpenSockets(d) == {a \in Listeners(d) : a.field[1] = "upstreams" => d.dmr.enabled}
P25Socket(d) == Socket(<<"p25", 0>>, "udp", d.p25.addr)
Sockets(d) == OpenSockets(d) \cup (IF d.p25.enabled THEN {P25Socket(d)} ELSE {})
InUse(a, b) == listenersCollide(a, b) /\ a.addr.port # 0
Binds(d) ==
  /\ \A a \in Sockets(d) : hostPort(a.addr)
  /\ \A a, b \in Sockets(d) : a.field # b.field => ~InUse(a, b)

Starts(d) ==
  /\ BuildsZello(d) /\ BuildsCallsigns(d) /\ BuildsDMR(d) /\ BuildsParrot(d) /\ BuildsP25(d) /\ BuildsIPSC(d)
  /\ Binds(d)

(* What applyToListener builds of a save while the server runs.            *)
Applies(d) == d.dmr.enabled => BuildsSchedule(d) /\ BuildsTriggers(d) /\ BuildsTable(d) /\ BuildsAccess(d)

(* Set.Send finds a link, Endpoint.Matches a vocoder, and buildTable the   *)
(* bridge a window or a trigger controls by the name as it is spelled.     *)
NamesFound(d) ==
  /\ \A e \in Endpoints(d) :
       /\ e.upstream # Blank => \E i \in Enabled(d.upstreams) : d.upstreams[i].name = e.upstream
       /\ e.transcoder # Blank => \E i \in DOMAIN d.transcoders : d.transcoders[i].name = e.transcoder
  /\ \A i \in DOMAIN d.schedule : \E j \in DOMAIN d.bridges : d.bridges[j].name = d.schedule[i].bridge
  /\ \A i \in DOMAIN d.triggers : \E j \in DOMAIN d.bridges : d.bridges[j].name = d.triggers[i].bridge

-----------------------------------------------------------------------------
(* A document in which everything is on and one of everything is named.    *)
Endpoint(peer, link, voc) ==
  [peer |-> peer, upstream |-> link, transcoder |-> voc, tg |-> 9, slot |-> 1]
NetBridge ==
  [name |-> "net", enabled |-> TRUE,
   endpoints |-> <<Endpoint(1, Blank, Blank), Endpoint(0, "link", Blank), Endpoint(0, Blank, "voc")>>]
EverythingOn ==
  [zello |-> [enabled |-> TRUE, health |-> "loopback", socket |-> "absolute", issuer |-> "set", channel |-> "set"],
   repeaters |-> [enabled |-> TRUE, addr |-> At("any", 1994), site |-> 0, hold |-> 60, presentAs |-> Blank,
                  routers |-> <<"address">>],
   p25 |-> [enabled |-> TRUE, addr |-> At("any", 41000), gateways |-> 0, calls |-> <<"K9MLS">>],
   ipsc |-> [enabled |-> TRUE, addr |-> At("any", 50000), master |-> 1, allowed |-> {2}, names |-> "named",
             timeout |-> 0, colour |-> 1],
   dmr |-> [Default.dmr EXCEPT !.enabled = TRUE, !.password = "file", !.peers = "dir", !.forwarding = TRUE,
                               !.callsign = "K9MLS"],
   parrot |-> [enabled |-> TRUE, tg |-> 9, slot |-> 2, most |-> 0, gap |-> 0],
   callsigns |-> [enabled |-> TRUE, contact |-> "mail"],
   subscription |-> [Default.subscription EXCEPT !.enabled = TRUE],
   access |-> [given |-> TRUE, reg |-> "permit", subs |-> "deny", ids |-> <<Span(1, 2)>>],
   weather |-> [enabled |-> TRUE, zones |-> <<"TXC121">>, events |-> <<"* Warning">>, tg |-> 9, slot |-> 1,
                sender |-> 1, contact |-> Blank],
   bridges |-> <<NetBridge>>,
   triggers |-> <<[bridge |-> "net", on |-> 1, tg |-> 9, slot |-> 1, hang |-> 180]>>,
   schedule |-> <<[bridge |-> "net", days |-> <<2>>, start |-> "20:00", minutes |-> 60, zone |-> "America/Chicago"]>>,
   upstreams |-> <<[name |-> "link", protocol |-> "homebrew", enabled |-> TRUE, addr |-> At("far", 1),
                    listen |-> At("lo", 5), network |-> 1, passphrase |-> "file", id |-> 7, password |-> "file",
                    identity |-> "own", slots |-> 0, stale |-> 0]>>,
   transcoders |-> <<[name |-> "voc", enabled |-> TRUE, addr |-> At("far", 2), listen |-> At("lo", 3),
                      peer |-> At("lo", 4), rate |-> 0, gain |-> 0, radio |-> 1, alias |-> 0, permit |-> {},
                      all |-> TRUE]>>,
   join |-> <<[name |-> "chat", dialled |-> 9, arrives |-> 8, slot |-> 1]>>]
Working ==
  [s \in DOMAIN Default |-> IF s \in DOMAIN EverythingOn THEN EverythingOn[s] ELSE Default[s]]

(* An operator edits one setting at a time, adds a copy of an entry or     *)
(* takes the last one away.                                                *)
SettingsInit == doc \in {Default, Working} /\ edits = 0
Editing == edits < MaxEdits /\ edits' = edits + 1
Set(section, field) ==
  Editing /\ \E v \in PlainFields[section][field] : doc' = [doc EXCEPT ![section][field] = v]
SetIn(list, field) ==
  Editing /\ \E i \in DOMAIN doc[list], v \in ListFields[list][field] : doc' = [doc EXCEPT ![list][i][field] = v]
SetEndpoint(field) ==
  /\ Editing
  /\ \E i \in DOMAIN doc.bridges : \E k \in DOMAIN doc.bridges[i].endpoints, v \in EndpointFields[field] :
       doc' = [doc EXCEPT !.bridges[i].endpoints[k][field] = v]
Copy(list) == Editing /\ doc[list] # <<>> /\ doc' = [doc EXCEPT ![list] = Append(@, Head(@))]
Drop(list) == Editing /\ doc[list] # <<>> /\ doc' = [doc EXCEPT ![list] = Front(@)]
DropEndpoint(i) ==
  /\ Editing /\ i \in DOMAIN doc.bridges /\ doc.bridges[i].endpoints # <<>>
  /\ doc' = [doc EXCEPT !.bridges[i].endpoints = Front(@)]
SettingsNext ==
  \/ \E s \in DOMAIN PlainFields : \E f \in DOMAIN PlainFields[s] : Set(s, f)
  \/ \E s \in DOMAIN ListFields : \E f \in DOMAIN ListFields[s] : SetIn(s, f)
  \/ \E f \in DOMAIN EndpointFields : SetEndpoint(f)
  \/ \E s \in DOMAIN ListFields : Copy(s) \/ Drop(s)
  \/ DropEndpoint(1)

-----------------------------------------------------------------------------
(* What Validate accepts and a start refuses, met while modelling.         *)
Gap(d) ==
  \/ d.dmr.enabled /\ \E i \in Enabled(d.upstreams) :
       LET u == d.upstreams[i]
       IN  (HomebrewProtocol(u) /\ u.identity = "none") \/ u.addr.port = 0
  \/ d.dmr.enabled /\ \E i \in Enabled(d.transcoders) : d.transcoders[i].listen.padded
  \/ d.zello.enabled /\ d.database.driver # "sqlite"
  \/ d.p25.enabled /\ \E a \in OpenSockets(d) : listenersCollide(a, P25Socket(d))
AsSpelled(d) ==
  /\ \A e \in Endpoints(d) : e.upstream = Fold(e.upstream) /\ e.transcoder = Fold(e.transcoder)
  /\ \A s \in {"bridges", "upstreams", "transcoders"} : \A i \in DOMAIN d[s] : d[s][i].name = Fold(d[s][i].name)
  /\ \A s \in {"triggers", "schedule"} : \A i \in DOMAIN d[s] : d[s][i].bridge = Fold(d[s][i].bridge)

(* "A configuration that is saved must be one the server starts with"      *)
(* (config/startable_test.go).  Apart from the known gaps, what Validate   *)
(* accepts builds, binds and can be applied to a running server, whatever  *)
(* two settings are combined; every link, vocoder and bridge an entry      *)
(* names is found under that name, when nobody spells it another way; and  *)
(* the next Load changes nothing that is in use, except a choice of the    *)
(* five alerts the first Weather page began with.                          *)
SavedStartsOtherwise ==
  Validate(doc) =>
    /\ ~Gap(doc) => Starts(doc) /\ Applies(doc)
    /\ AsSpelled(doc) /\ doc.dmr.enabled => NamesFound(doc)
    /\ doc.dmr.enabled /\ doc.weather.enabled /\ doc.weather.events # NarrowEvents => Upgrade(doc) = doc

(* A permit or a ban means what its entries say, however they overlap,     *)
(* touch or are ordered.                                                   *)
ListsMeanWhatTheySay == ParseOK(RegistrationList(doc)) => MeansWhatItSays(RegistrationList(doc))
=============================================================================
