--------------------------------- MODULE Panels ---------------------------------
(***************************************************************************)
(* The title bar and the list in the overlay: src/src/ui/Interface.cpp and  *)
(* the handlers in src/src/client/Events.cpp that bring them up to date.    *)
(* Both are copies of what the library knows of a channel: its topic, who   *)
(* is there and with which hats.  They are written by focusWindow and by    *)
(* some handlers, each of which decides for itself whether the channel is   *)
(* on the screen.  This module composes Client with these copies, and puts  *)
(* them beside the status bar, the third copy.  The order of a list, modes  *)
(* and headings are left out.                                               *)
(***************************************************************************)
EXTENDS Notifications

CONSTANTS
  Topic,    \* the topics a channel can have
  NoTopic,  \* that of a channel whose topic is not known yet
  Hat       \* what a user can be in a channel: "" or "@"

ASSUME TopicAssumption == NoTopic \in Topic /\ Null \notin Topic

ASSUME HatAssumption == "" \in Hat

VARIABLES
  room,    \* of the library: each channel's topic, and its users with their hats
  title,   \* the text of the title bar, Null when it is cleared
  listed,  \* the lines of the overlay: whom they are about, and what follows
  watched  \* which copies a behaviour looks at: "bar" or "panels"

screenVars == <<allVars, room, title, listed, watched>>

Channel == {o \in Object : IsChannelObject(o)}

-----------------------------------------------------------------------------
(* Writing the title bar and the list.                                      *)

\* updateTitlebar(channel)
TitleOfChannel(o) == room'[o].topic

\* updateTitlebar: an active window that is not of a channel has no title.
TitleOf(u) == IF IsChannel(u, u.active) THEN TitleOfChannel(u.obj[u.active]) ELSE Null

Nothing == [of |-> Null, rows |-> {}]

\* The hats and the name of a user, and the hats of a user in a channel.
UserlistLine(o, n) == <<n, room'[o].users[n]>>
ChanlistLine(who, o) == <<o, room'[o].users[who.name]>>

\* updateOverlay(channel)
People(o) == [of |-> o, rows |-> {UserlistLine(o, n) : n \in DOMAIN room'[o].users}]

\* updateOverlay(user), with the channels the library has for the user.
Places(who) ==
  LET shared == {o \in joined' : o.server = who.server /\ who.name \in DOMAIN room'[o].users}
  IN [of |-> who, rows |-> {ChanlistLine(who, o) : o \in shared}]

\* The servers with the channels we are in: StatusServerLine, StatusChannelLine.
Servers == [of |-> Status, rows |-> joined']

\* updateOverlay, which is about the window below.
OverlayOf(u) ==
  LET w == u.beforeOverlay
  IN IF w = Status THEN Servers
     ELSE IF w = Null \/ u.obj[w] = Null THEN Nothing
     ELSE IF IsChannel(u, w) THEN People(u.obj[w]) ELSE Places(u.obj[w])

\* The end of focusWindow, which whatever changes the active window goes through.
Follow ==
  /\ title' = IF ui'.active = ui.active THEN title ELSE TitleOf(ui')
  /\ listed' = IF ui'.active = Overlay /\ ui.active # Overlay
               THEN OverlayOf(ui') ELSE listed

\* A handler that ends with updateTitlebar when one of ws is the active window.
Retitle(ws) ==
  IF ui.active \in ws THEN title' = TitleOf(ui') /\ UNCHANGED listed ELSE Follow

-----------------------------------------------------------------------------
(* The handlers of Client with the title bar and the list.                  *)

PanelInit ==
  /\ ClientInit
  /\ room = [o \in Channel |-> [topic |-> NoTopic, users |-> <<>>]]
  /\ title = Null
  /\ listed = Nothing

\* The keys, /wc, and clicks on a name.  /move, which changes the order of the
\* windows alone, is left out.
Keys ==
  /\ \/ KeyOverlay \/ KeyNext \/ KeyPrevious \/ CommandWindowClose
     \/ \E n \in 0..Len(ui.children) : KeyIndex(n)
     \/ \E o \in Object : ~IsChannelObject(o) /\ o.server \in connected /\ OpenAndFocus(o)
  /\ UNCHANGED <<connected, joined>>

\* What focuses and closes windows, and messages, which open them.
Moves ==
  /\ \/ Keys
     \/ \E server \in Server : ServerRemoved(server)
     \/ \E o \in Object : \/ SelfJoin(o) \/ Message(o)
                          \/ \E close \in BOOLEAN : SelfPart(o, close)
  /\ UNCHANGED room /\ Follow

Kicked(o) == SelfKick(o) /\ UNCHANGED room /\ Retitle({Find(ui, o)})

\* ServerStatusEvent
Reported ==
  /\ ServerStatus /\ UNCHANGED <<room, title>>
  /\ listed' = IF ui.active = Overlay /\ ui'.fault = "none" THEN OverlayOf(ui') ELSE listed

\* /overlay, for which a key has lifted the overlay: it clears the list.
CommandOverlay ==
  /\ OnKey(LAMBDA u : u)
  /\ UNCHANGED <<connected, joined, room>>
  /\ title' = IF ui'.active = ui.active THEN title ELSE TitleOf(ui')
  /\ listed' = Nothing

-----------------------------------------------------------------------------
(* What the library learns of a channel we are in, and the events it raises. *)

\* The users of a channel once it is known that others are there too.
With(users, others) ==
  [n \in DOMAIN users \cup DOMAIN others |->
     IF n \in DOMAIN users THEN users[n] ELSE others[n]]

\* JoinEvent of somebody else.
Joins(o, n) ==
  /\ o \in joined /\ n \notin DOMAIN room[o].users
  /\ room' = [room EXCEPT ![o].users = With(@, [m \in {n} |-> ""])]
  /\ Message(o) /\ Follow

Without(users, n) == [m \in DOMAIN users \ {n} |-> users[m]]

\* PartEvent and KickEvent of somebody else write a line.
Leaves(o, n) ==
  /\ Running /\ o \in joined /\ n \in DOMAIN room[o].users
  /\ room' = [room EXCEPT ![o].users = Without(@, n)]
  /\ UNCHANGED <<vars, title, listed>>

\* QuitEvent and UserAppearedEvent: the user is in no channel any more, or the
\* library has just made the user.
QuitsOrAppears(who, rooms) ==
  /\ \/ /\ UserQuit(who, rooms)
        /\ room' = [o \in Channel |->
             IF o \in joined /\ o.server = who.server
             THEN [room[o] EXCEPT !.users = Without(@, who.name)] ELSE room[o]]
        /\ Retitle({w \in WindowsForUser(ui, who, rooms) : ui.obj[w] = who})
     \/ /\ UserAppeared(who, rooms)
        /\ UNCHANGED room
        /\ Retitle(WindowsForUser(ui, who, rooms))

\* NamesUpdatedEvent, when the server has told who else is in the channel: the
\* handler asks whether it is the channel of the active window, which is not so
\* of the overlay, and so there is nothing for updateOverlay to list.
NamesUpdated(o) ==
  /\ Running /\ o \in joined
  /\ \E others \in SUBSET (Nick \ DOMAIN room[o].users) : \E users \in [others -> Hat] :
       room' = [room EXCEPT ![o].users = With(@, users)]
  /\ listed' = IF ui.obj[ui.active] = o THEN Nothing ELSE listed
  /\ UNCHANGED <<vars, title>>

\* isActive
IsActive(w) == w # Null /\ w \in {ui.active, ui.beforeOverlay}

\* Variant: the active window alone is looked at.
HatsUpdatedUncovered(o, n, hat) ==
  /\ Running /\ o \in joined /\ n \in DOMAIN room[o].users
  /\ room' = [room EXCEPT ![o].users[n] = hat]
  /\ LET shown == Find(ui, o) = ui.active
     IN /\ ui' = IF shown THEN UpdateStatusbar(ui) ELSE ui
        /\ listed' = IF shown THEN People(o) ELSE listed
  /\ UNCHANGED <<connected, joined, title>>

\* HatsUpdatedEvent: the window is found by its name, the list is of the event's
\* channel.
HatsUpdated(o, n, hat) ==
  /\ Running /\ o \in joined /\ n \in DOMAIN room[o].users
  /\ room' = [room EXCEPT ![o].users[n] = hat]
  /\ LET shown == IsActive(Find(ui, o))
     IN /\ ui' = IF shown THEN UpdateStatusbar(ui) ELSE ui
        /\ listed' = IF shown THEN People(o) ELSE listed
  /\ UNCHANGED <<connected, joined, title>>

\* The window getActiveChannel looks at: the one below the overlay, if there is.
ActiveWindow == IF ui.beforeOverlay # Null THEN ui.beforeOverlay ELSE ui.active

\* Variant: the title is written whichever channel is active.
TopicUpdatedAnywhere(o, topic) ==
  /\ Running /\ o \in joined
  /\ room' = [room EXCEPT ![o].topic = topic]
  /\ title' = topic
  /\ UNCHANGED <<vars, listed>>

\* TopicUpdatedEvent: two objects for one channel are not the same.
TopicUpdated(o, topic) ==
  /\ Running /\ o \in joined
  /\ room' = [room EXCEPT ![o].topic = topic]
  /\ ui' = IF ActiveWindow \in Live(ui) THEN ui ELSE Faulty(ui, "freed")
  /\ title' = IF ui.obj[ActiveWindow] = o THEN TitleOfChannel(o) ELSE title
  /\ UNCHANGED <<connected, joined, listed>>

Learns ==
  \E o \in Object :
    \/ Kicked(o) \/ NamesUpdated(o)
    \/ \E n \in Nick : Joins(o, n) \/ Leaves(o, n) \/ \E hat \in Hat : HatsUpdated(o, n, hat)
    \/ \E topic \in Topic : TopicUpdated(o, topic)
    \/ \E rooms \in SUBSET ChannelWindows(ui) : QuitsOrAppears(o, rooms)
-----------------------------------------------------------------------------

PanelNext == Moves \/ Reported \/ CommandOverlay \/ Learns

\* Neither the bar nor the panels read the other, and no handler of windows reads
\* either: a behaviour looks at the bar, with the lines that are written, or at
\* the panels, with what the library learns, and then the bar is never drawn.
ScreenInit ==
  /\ PanelInit
  /\ \/ watched = "bar" /\ NotesInit
     \/ /\ watched = "panels"
        /\ unseen = [w \in Window |-> None] /\ note = [level |-> unseen, bar |-> <<>>]

ScreenNext ==
  /\ \/ watched = "bar" /\ NotesNext /\ UNCHANGED <<room, title, listed>>
     \/ watched = "panels" /\ PanelNext /\ UNCHANGED <<note, unseen>>
  /\ UNCHANGED watched

ScreenSpec == ScreenInit /\ [][ScreenNext]_screenVars

-----------------------------------------------------------------------------
(* Properties.                                                              *)

\* The handlers with their lines do to the windows what Client says they do:
\* no line, level or drawing of the bar opens, closes or focuses a window.  (The
\* panels take the handlers of Client as they are.)
KeepsClient == [][watched = "bar" => UNCHANGED vars \/ ClientNext]_vars

\* While a window of a channel is active the title bar has the topic of that
\* window's channel, and it is empty at any other window, through every order
\* of topics, focus, closing and covering.  (After the channel is left and
\* joined again under another object the window's channel is the old one.)
TitleTells ==
  Running /\ watched = "panels" /\ ui.active # Overlay =>
    title = IF IsChannel(ui, ui.active) THEN room[ui.obj[ui.active]].topic ELSE Null

\* The overlay lists what the library knows of the window below.
Covering == Running /\ watched = "panels" /\ ui.active = Overlay
Rows == [o \in Channel |-> {<<n, room[o].users[n]>> : n \in DOMAIN room[o].users}]
Covered == ui.obj[ui.beforeOverlay]
Accurate ==
  /\ ui.beforeOverlay \in Live(ui)
  /\ \/ ui.beforeOverlay = Status /\ listed.of = Status /\ listed.rows = joined
     \/ IsChannel(ui, ui.beforeOverlay) /\ listed.of = Covered /\ listed.rows = Rows[Covered]
     \/ /\ IsUser(ui, ui.beforeOverlay) /\ listed.of = Covered
        /\ listed.rows = {line \in joined \X Hat :
             /\ line[1].server = Covered.server
             /\ <<Covered.name, line[2]>> \in Rows[line[1]]}

\* The channel of the covered window was joined again under another object.
Replaced == Covered # Null /\ \E o \in joined : o # Covered /\ SameName(o, Covered)

There == [o \in Channel |-> DOMAIN room[o].users]

\* The list is right when the overlay opens, and as long as it is open a change
\* of hats does not make it wrong.  It does get out of date when somebody comes
\* or goes, which no handler brings to the overlay, when it lists the channels of
\* a user, and when HatsUpdated is about an object that the window does not hold.
ListedAsTheyAre ==
  [][Covering' /\ (Covering => Accurate) =>
       \/ Accurate'
       \/ Covering /\ (joined' # joined \/ There' # There \/ Replaced \/ IsUser(ui, ui.beforeOverlay))]_screenVars
=============================================================================
