------------------------------- MODULE Routes -------------------------------
(***************************************************************************)
(* The routes of a Session (libs/ardour/session.cc, route.cc,              *)
(* route_group.h): the list that every process cycle walks, kept in the    *)
(* order of the connections, and solo, which is carried out by muting the  *)
(* routes that are not soloed.                                             *)
(*                                                                         *)
(* The user adds, removes, connects and solos routes; JACK calls           *)
(* graph_reordered() some time after the connections changed.  Each        *)
(* operation runs as a whole: it holds the lock of the list's RCU manager  *)
(* while it changes the list, and solo belongs to the user's thread.       *)
(***************************************************************************)
EXTENDS RouteGraph

CONSTANTS
    Kind,       \* of each route: "audio", "midi", "bus", "master" or "control"
    MayFeed,    \* the connections the user may make
    MayBeSafe,  \* the routes the user may make solo safe
    Groups,     \* the mix groups
    MayJoin     \* the routes the user may put into a mix group

ASSUME RoutesAssumption ==
    /\ Kind \in [Routes -> {"audio", "midi", "bus", "master", "control"}]
    /\ \A r, o \in Routes : Kind[r] = Kind[o] /\ Kind[r] \in {"master", "control"} => r = o
    /\ MayFeed \subseteq {p \in Routes \X Routes : p[1] # p[2]}
    /\ MayBeSafe \subseteq Routes /\ MayJoin \subseteq Routes

VARIABLES
    routes,     \* the RouteList that readers see
    wires,      \* the connections from one route's outputs to another's inputs
    outs,       \* the routes that have _control_outs
    fedBy,      \* Route::fed_by
    reordered,  \* JACK has a graph order callback to deliver
    solo,       \* [soloed, muted : who is _soloed, who has the solo gain 0; soloing]
    soloSafe,   \* Route::_solo_safe
    latched,    \* Config->get_solo_latched ()
    groups,     \* RouteGroup::routes
    active,     \* the groups that are_active ()
    running     \* FALSE when the stack has overflowed

vars == <<routes, wires, outs, fedBy, reordered, solo, soloSafe, latched, groups, active, running>>

Present == ToSet(routes)

IsTrack(r) == Kind[r] \in {"audio", "midi"}      \* dynamic_cast<Track*>

Special(r) == Kind[r] \in {"master", "control"}

Control(list) == {r \in ToSet(list) : Kind[r] = "control"}

\* Route::feeds: from the outputs, or from the control outs.
Connections == wires \cup (outs \X Control(routes))

Init ==
    /\ routes = <<>> /\ wires = {} /\ outs = {} /\ fedBy = [r \in Routes |-> {}]
    /\ reordered = FALSE
    /\ solo = [soloed |-> {}, muted |-> {}, soloing |-> FALSE]
    /\ soloSafe = {} /\ latched = TRUE
    /\ groups = [g \in Groups |-> <<>>] /\ active = {}
    /\ running = TRUE

-----------------------------------------------------------------------------
(* Solo.  The operators take and return the record solo.                   *)

SoloState == [soloed : SUBSET Routes, muted : SUBSET Routes, soloing : BOOLEAN]

\* Mutant: a bus solo also mutes the master and the control outs.
ModifySoloMuteAll(s, is_track, mute) ==
    LET sort == {r \in Present : IsTrack(r) = is_track}
        muted == IF mute THEN sort \ s.soloed ELSE sort \cap s.soloed
    IN [s EXCEPT !.muted = (@ \ sort) \cup muted]

\* modify_solo_mute(): only the tracks, or only the busses.
ModifySoloMute(s, is_track, mute) ==
    LET tracks == {r \in Present : IsTrack(r)}
        lit    == {r \in Present \ tracks : r \in s.soloed}
        others == {r \in Present \ tracks : r \notin s.soloed /\ ~Special(r)}
    IN IF is_track
       THEN [s EXCEPT !.muted = (@ \ tracks) \cup
                  (IF mute THEN tracks \ s.soloed ELSE tracks \cap s.soloed)]
       ELSE [s EXCEPT !.muted = (@ \ (lit \cup others)) \cup (IF mute THEN others ELSE {})]

\* The members a set_solo() on r goes to: _mix_group->apply when the group is active.
Members(r) ==
    LET own == {g \in active : Contains(groups[g], r)}
    IN IF own = {} THEN <<r>> ELSE groups[CHOOSE g \in own : TRUE]

\* set_solo (false) while solo_update_disabled: the session does not hear of it.
Unsolo(s, r) ==
    IF r \in soloSafe THEN s
    ELSE [s EXCEPT !.soloed = @ \ (ToSet(Members(r)) \ soloSafe)]

\* o is left alone when r is soloed: it is r, or r's mix group is active and also o's.
Together(o, r) == o = r \/ \E g \in active : {o, r} \subseteq ToSet(groups[g])

\* Mutant: latching is ignored.
UnsoloOthersLatched(s, r, is_track) ==
    LET switch == [o \in Routes |-> [u \in SoloState |->
          IF IsTrack(o) # is_track \/ Together(o, r) THEN u ELSE Unsolo(u, o)]]
    IN Folded(switch, s, routes)

\* Mutant: the others stay soloed.
UnsoloNobody(s, r, is_track) == s

\* The first loop of route_solo_changed(), over the routes of r's kind.
UnsoloOthers(s, r, is_track) ==
    LET switch == [o \in Routes |-> [u \in SoloState |->
          IF IsTrack(o) # is_track \/ Together(o, r) \/ (latched /\ o \in u.soloed)
          THEN u ELSE Unsolo(u, o)]]
    IN Folded(switch, s, routes)

\* Whether the first soloed route of the list, the only one looked at, is a track as asked.
FirstSoloedIs(s, is_track) ==
    \E i \in DOMAIN routes :
       /\ routes[i] \in s.soloed /\ \A j \in 1 .. i - 1 : routes[j] \notin s.soloed
       /\ IsTrack(routes[i]) = is_track

\* Mutant: the session notices soloed routes of r's own kind only.
RouteSoloChangedOwnKind(s, r) ==
    LET is_track == Kind[r] = "audio"
        u == UnsoloOthers(s, r, is_track)
        same == FirstSoloedIs(u, is_track)
    IN [ModifySoloMute(u, is_track, same) EXCEPT !.soloing = same]

\* route_solo_changed().  r counts as a track when it is an AudioTrack.
RouteSoloChanged(s, r) ==
    LET is_track == Kind[r] = "audio"
        u == UnsoloOthers(s, r, is_track)
        something_soloed == Present \cap u.soloed # {}
        same_thing_soloed == FirstSoloedIs(u, is_track)
    IN [ModifySoloMute(u, is_track, same_thing_soloed) EXCEPT !.soloing = something_soloed]

\* Route::set_solo (yn, src) with src the route's own active group, or none of them active.
SetOne(s, r, yn) ==
    IF r \in soloSafe \/ (r \in s.soloed) = yn THEN s
    ELSE RouteSoloChanged([s EXCEPT !.soloed = IF yn THEN @ \cup {r} ELSE @ \ {r}], r)

\* Mutant: the route's group is not asked.
SetAlone(s, r, yn) == SetOne(s, r, yn)

\* Route::set_solo (yn, src) from the user.
Set(s, r, yn) ==
    IF r \in soloSafe THEN s
    ELSE LET one == [m \in Routes |-> [u \in SoloState |-> SetOne(u, m, yn)]]
         IN Folded(one, s, Members(r))

\* set_solo() on each route of a list.
SetEach(s, list, yn) ==
    LET one == [r \in Routes |-> [u \in SoloState |-> Set(u, r, yn)]] IN Folded(one, s, list)

\* update_route_solo_state(): only ever sees the list that readers see.
UpdateRouteSoloState(s) ==
    LET mute == Present \cap s.soloed # {}
        is_track == FirstSoloedIs(s, TRUE)
        u == [s EXCEPT !.soloing = mute]
    IN IF ~mute THEN [u EXCEPT !.muted = @ \ Present]
       ELSE ModifySoloMute(u, is_track, mute)

-----------------------------------------------------------------------------
(* The list.                                                               *)

\* list::remove: the routes of the list but r.
Without(list, r) ==
    IF Contains(list, r) THEN RemoveAt(list, CHOOSE i \in DOMAIN list : list[i] = r) ELSE list

\* resort_routes_using() on a copy, published when the RCUWriter goes out of scope.
Publish(list, connections) ==
    LET sorted == Resorted(list, connections, fedBy)
    IN IF sorted.returns
       THEN routes' = sorted.list /\ fedBy' = sorted.fedBy /\ running' = TRUE
       ELSE routes' = routes /\ fedBy' = fedBy /\ running' = FALSE

\* add_routes() with one new route: sorted in, then given control outs.
AddRoute(r) ==
    /\ running /\ r \notin Present
    /\ Publish(Append(routes, r), Connections)
    /\ LET connected == running' /\ ~Special(r) /\ Control(routes) # {}
       IN /\ outs' = IF connected THEN outs \cup {r} ELSE outs
          /\ reordered' = (reordered \/ connected)
    /\ UNCHANGED <<wires, solo, soloSafe, latched, groups, active>>

\* Mutant: the mix group is not told that the route goes away.
RemoveRouteGrouped(r) ==
    /\ running /\ r \in Present
    /\ routes' = Without(routes, r)
    /\ LET cut == {w \in wires : r \in {w[1], w[2]}}
           s   == UpdateRouteSoloState(solo)
       IN /\ wires' = wires \ cut
          /\ reordered' = (reordered \/ cut # {})
          /\ solo' = [s EXCEPT !.soloed = @ \ {r}, !.muted = @ \ {r}]
    /\ fedBy' = [fedBy EXCEPT ![r] = {}]
    /\ outs' = outs \ {r} /\ soloSafe' = soloSafe \ {r}
    /\ UNCHANGED <<latched, groups, active, running>>

\* remove_route(): solo is brought up to date before the list without r is published;
\* then r is disconnected and everyone drops it.
RemoveRoute(r) ==
    /\ running /\ r \in Present
    /\ routes' = Without(routes, r)
    /\ LET cut == {w \in wires : r \in {w[1], w[2]}}
           off == IF Kind[r] = "control" THEN outs ELSE outs \cap {r}
           s   == UpdateRouteSoloState(solo)
       IN /\ wires' = wires \ cut
          /\ outs' = outs \ off
          /\ reordered' = (reordered \/ cut \cup off # {})
          /\ solo' = [s EXCEPT !.soloed = @ \ {r}, !.muted = @ \ {r}]
    /\ fedBy' = [fedBy EXCEPT ![r] = {}]
    /\ soloSafe' = soloSafe \ {r}
    /\ groups' = [g \in Groups |-> Without(groups[g], r)]
    /\ UNCHANGED <<latched, active, running>>

\* A port connection made or broken; JACK tells the session later.
Rewire(a, b) ==
    /\ running /\ {a, b} \subseteq Present /\ <<a, b>> \in MayFeed
    /\ wires' = IF <<a, b>> \in wires THEN wires \ {<<a, b>>} ELSE wires \cup {<<a, b>>}
    /\ reordered' = TRUE
    /\ UNCHANGED <<routes, outs, fedBy, solo, soloSafe, latched, groups, active, running>>

\* graph_reordered(), from JACK's graph order callback.
GraphReordered ==
    /\ running /\ reordered
    /\ Publish(routes, Connections)
    /\ reordered' = FALSE
    /\ UNCHANGED <<wires, outs, solo, soloSafe, latched, groups, active>>

-----------------------------------------------------------------------------
(* The user's solo operations.                                             *)

SetSolo(r, yn) ==
    /\ running /\ r \in Present
    /\ solo' = Set(solo, r, yn)
    /\ UNCHANGED <<routes, wires, outs, fedBy, reordered, soloSafe, latched, groups, active, running>>

\* Session::set_all_solo
SetAllSolo(yn) ==
    /\ running
    /\ solo' = SetEach(solo, routes, yn)
    /\ UNCHANGED <<routes, wires, outs, fedBy, reordered, soloSafe, latched, groups, active, running>>

\* RouteUI::set_mix_group_solo: mix_group->apply (&Route::set_solo, yn, this).
SetGroupSolo(g, yn) ==
    /\ running
    /\ solo' = SetEach(solo, groups[g], yn)
    /\ UNCHANGED <<routes, wires, outs, fedBy, reordered, soloSafe, latched, groups, active, running>>

SetSoloSafe(r) ==
    /\ running /\ r \in Present \cap MayBeSafe
    /\ soloSafe' = IF r \in soloSafe THEN soloSafe \ {r} ELSE soloSafe \cup {r}
    /\ UNCHANGED <<routes, wires, outs, fedBy, reordered, solo, latched, groups, active, running>>

SetLatched ==
    /\ running /\ latched' = ~latched
    /\ UNCHANGED <<routes, wires, outs, fedBy, reordered, solo, soloSafe, groups, active, running>>

\* Route::set_mix_group: out of the old group and into the new one, if any.
SetMixGroup(r, into) ==
    /\ running /\ r \in Present \cap MayJoin /\ into \in SUBSET Groups
    /\ \A g, h \in into : g = h
    /\ into # {g \in Groups : Contains(groups[g], r)}
    /\ groups' = [g \in Groups |->
                    IF g \in into THEN Append(groups[g], r) ELSE Without(groups[g], r)]
    /\ UNCHANGED <<routes, wires, outs, fedBy, reordered, solo, soloSafe, latched, active, running>>

\* RouteGroup::set_active
SetActive(g) ==
    /\ running
    /\ active' = IF g \in active THEN active \ {g} ELSE active \cup {g}
    /\ UNCHANGED <<routes, wires, outs, fedBy, reordered, solo, soloSafe, latched, groups, running>>

\* What changes the list, in a session where nobody solos.
NextList ==
    \/ \E r \in Routes : AddRoute(r) \/ RemoveRoute(r)
    \/ \E a, b \in Routes : Rewire(a, b)
    \/ GraphReordered

NextSolo ==
    \/ \E r \in Routes, yn \in BOOLEAN : SetSolo(r, yn)
    \/ \E yn \in BOOLEAN : SetAllSolo(yn)
    \/ \E g \in Groups, yn \in BOOLEAN : SetGroupSolo(g, yn)
    \/ \E r \in Routes : SetSoloSafe(r)
    \/ SetLatched
    \/ \E r \in Routes, into \in SUBSET Groups : SetMixGroup(r, into)
    \/ \E g \in Groups : SetActive(g)

Next == NextList \/ NextSolo

Spec == Init /\ [][Next]_vars

-----------------------------------------------------------------------------
\* Everything the session knows of a route is of a route it has; a route is in one group.
TypeOK ==
    /\ routes \in Seq(Routes) /\ IsInjective(routes)
    /\ wires \subseteq MayFeed /\ \A w \in wires : {w[1], w[2]} \subseteq Present
    /\ outs \subseteq {r \in Present : ~Special(r)}
    /\ fedBy \in [Routes -> SUBSET Routes]
    /\ solo \in [soloed : SUBSET Present, muted : SUBSET Present, soloing : BOOLEAN]
    /\ soloSafe \subseteq Present
    /\ groups \in [Groups -> Seq(Present)] /\ \A g \in Groups : IsInjective(groups[g])
    /\ \A g, h \in Groups : g # h => ToSet(groups[g]) \cap ToSet(groups[h]) = {}
    /\ {reordered, latched, running} \subseteq BOOLEAN /\ active \subseteq Groups

\* Every change of the connections has been followed by a resort.
Sorted == running /\ ~reordered

\* trace_terminal() is right whenever there is no feedback: fed_by holds exactly the
\* routes whose signal gets to the route, through however many others.
FedByIsClosure ==
    Sorted /\ ~HasFeedback(Present, Connections) =>
       \A r \in Present : fedBy[r] = Upstream(Present, Connections)[r] \ {r}

\* When the session has heard of the connections, the route that everything goes to, a master
\* out, is put after everything else, whatever the order keys say, and however RouteSorter
\* orders the rest, as long as there is no feedback.
SinkLast ==
    [][reordered /\ ~reordered' /\ ~HasFeedback(Present, Connections)
       => \A z \in Present : Upstream(Present, Connections)[z] = Present => Last(routes') = z]_vars

\* The recursion of trace_terminal() comes back unless three routes or more feed each
\* other in a circle: a loop of two is noticed.
LongLoopsOnly ==
    ~running => HasLongLoop(Present, Connections)

\* The list of routes and the groups stay; someone was soloed or unsoloed.
SoloStep == routes' = routes /\ solo'.soloed # solo.soloed

\* The session's solo light (soloing ()) is on when some route is soloed, whatever other
\* routes the step switched off behind the session's back.
SoloingShown == [][SoloStep => solo'.soloing = (solo'.soloed # {})]_vars

\* Soloing a route switches off the other soloed routes of its kind, but for those in
\* its own active group and the solo safe ones.
SoloExclusive ==
    [][SoloStep /\ ~latched =>
          \A r \in {n \in solo'.soloed \ solo.soloed : Kind[n] # "midi"} :
             SetSolo(r, TRUE) =>
                \A o \in solo'.soloed :
                   IsTrack(o) = IsTrack(r) => o \in soloSafe \/ Members(o) = Members(r)]_vars

\* "if its already soloed, and solo latching is enabled, then leave it as it is", of the
\* routes that are in no active group.
LatchKeeps ==
    [][latched /\ SoloStep =>
          \A o \in solo.soloed \ solo'.soloed :
             Len(Members(o)) = 1 => \A r \in Routes : ~SetSolo(r, TRUE)]_vars

\* The members of an active group that are not solo safe are soloed together, also when
\* soloing some other route switches one of them off.
GroupSolosTogether ==
    [][SoloStep =>
          \A g \in active :
             LET members == ToSet(groups[g])
                 lit == members \cap solo'.soloed
             IN lit # members \cap solo.soloed =>
                   lit \ soloSafe \in {{}, members \ soloSafe}]_vars

\* "soloing a track mutes all other tracks, soloing a bus mutes all other busses": of the
\* steps that switch audio tracks only, or busses only, while no route of the other kind
\* is soloed.  The master and the control outs are never muted so.
SoloMutes ==
    [][SoloStep =>
          LET switched == (solo'.soloed \ solo.soloed) \cup (solo.soloed \ solo'.soloed)
              all(sort) == switched \cup solo'.soloed \subseteq sort
              muted(sort) == IF solo'.soloed = {} THEN {} ELSE sort \ solo'.soloed
              audio  == {r \in Present : Kind[r] = "audio"}
              tracks == {r \in Present : IsTrack(r)}
              busses == Present \ tracks
          IN /\ all(audio) => solo'.muted \cap tracks = muted(tracks)
             /\ all(busses) => solo'.muted \cap busses = {r \in muted(busses) : ~Special(r)}]_vars
=============================================================================
