-------------------------------- MODULE Groups --------------------------------
(***************************************************************************)
(* One group among the devices that may hold it: the /group commands       *)
(* (group-commands.ts), the fan-out that announces each of them as so many *)
(* pairwise messages, and the handling of what arrives (messaging.ts,      *)
(* groups.ts).  There is no group object anywhere: each device keeps its   *)
(* own record and changes it by what it is told.                           *)
(*                                                                         *)
(* A device runs one command at a time (cmd) and, beside it, its receive   *)
(* lane (rx).  Both read the record, await, and write it back.  The        *)
(* server keeps each device's messages in the order they were sent; a      *)
(* request may fail and the tab may be closed.  The pairwise sessions are  *)
(* those of Ratchet and Handshake: a message opens once, and a message to  *)
(* someone who is no contact cannot be sent.                               *)
(***************************************************************************)
EXTENDS Naturals, FiniteSets, Sequences

CONSTANTS
  Device,       \* the UIDs
  NoDevice,     \* none
  MaxMembers,   \* MAX_GROUP_MEMBERS
  MaxCommands,  \* bound: commands that send
  MaxMishaps    \* bound: missing contacts, failed requests and closed tabs

ASSUME GroupBounds ==
  /\ NoDevice \notin Device
  /\ {MaxMembers, MaxCommands, MaxMishaps} \subseteq Nat
  /\ MaxMembers > 1 /\ IsFiniteSet(Device)

VARIABLES
  rec,       \* the stored record group/<gid> of each device
  contacts,  \* who is in each device's contacts
  cmd, rx,   \* what each lane is at
  inbox,     \* each device's messages at the server
  made,      \* the group has been created
  \* history and bounds
  quiet,     \* every change so far had run its course before the next
  astray,    \* in quiet use a text was discarded, or read by one who is out
  alarmed,   \* in quiet use a device warned of a different member list
  overlap,   \* a device's two lanes have held the record at the same time
  out,       \* whom each device has seen go, and not named again since
  commands, mishaps

local == <<rec, contacts>>
history == <<quiet, astray, alarmed, overlap, out>>
groupVars == <<local, cmd, rx, inbox, made, history, commands, mishaps>>

NoGroup == [members |-> {}, active |-> FALSE]
Group(members, active) == [members |-> members, active |-> active]

(* A record is validated whenever it is read. *)
IsValidGroup(g) == g.members # {} /\ Cardinality(g.members) <= MaxMembers
LoadGroup(d) == IF IsValidGroup(rec[d]) THEN rec[d] ELSE NoGroup
Known(d) == LoadGroup(d) # NoGroup
SaveGroup(d, g) == rec' = [rec EXCEPT ![d] = g]

Envelope(d, action, subject, members) ==
  [from |-> d, action |-> action, subject |-> subject, members |-> members]

Idle == [pc |-> "rest", op |-> "none", who |-> NoDevice, base |-> NoGroup, legs |-> {}]
NoEnvelope == Envelope(NoDevice, "none", NoDevice, {})
Listening == [pc |-> "idle", env |-> NoEnvelope, base |-> NoGroup]

Pairs == {p \in Device \X Device : p[1] # p[2]}

GroupInit ==
  /\ rec = [d \in Device |-> NoGroup]
  /\ \E missing \in SUBSET Pairs :
       /\ Cardinality(missing) <= MaxMishaps
       /\ mishaps = Cardinality(missing)
       /\ contacts = [d \in Device |-> {u \in Device \ {d} : <<d, u>> \notin missing}]
  /\ cmd = [d \in Device |-> Idle] /\ rx = [d \in Device |-> Listening]
  /\ inbox = [d \in Device |-> <<>>]
  /\ made = FALSE
  /\ quiet = TRUE /\ astray = FALSE /\ alarmed = FALSE
  /\ overlap = [d \in Device |-> FALSE] /\ out = [d \in Device |-> {}]
  /\ commands = 0

-----------------------------------------------------------------------------
(* What is under way, for the history. *)

UnderWay ==
  {cmd[d].op : d \in Device} \cup {rx[d].env.action : d \in Device}
    \cup UNION {{inbox[d][i].action : i \in 1 .. Len(inbox[d])} : d \in Device}
Settled == UnderWay \subseteq {"none"}
Orderly(op) == UnderWay \subseteq (IF op = "msg" THEN {"none", "msg"} ELSE {"none"})

(* A command that holds a record it read, with a write of it to come. *)
Holding(d) == cmd[d].pc = "save" \/ (cmd[d].op = "leave" /\ cmd[d].pc # "rest")
Reading(d) == rx[d].pc = "apply"

Run(d) == /\ cmd[d] = Idle /\ commands < MaxCommands
          /\ commands' = commands + 1
Become(d, c) == cmd' = [cmd EXCEPT ![d] = c]
Flow(pc, op, who, base, legs) ==
  [pc |-> pc, op |-> op, who |-> who, base |-> base, legs |-> legs]

-----------------------------------------------------------------------------
(* The commands. *)

GroupNew(d, others) ==
  LET group == Group({d} \cup others, TRUE)
  IN /\ Run(d) /\ ~made /\ made' = TRUE
     /\ others # {} /\ others \subseteq contacts[d] /\ IsValidGroup(group)
     /\ SaveGroup(d, group)
     /\ Become(d, Flow("fan", "invite", NoDevice, group, others))
     /\ UNCHANGED <<contacts, rx, inbox, history, mishaps>>

(* requireGroup: the record a command reads is the one it will write back. *)
RequireGroup(d, op, who, pc, legs) ==
  /\ Run(d) /\ Known(d)
  /\ Become(d, Flow(pc, op, who, LoadGroup(d), legs))
  /\ overlap' = [overlap EXCEPT ![d] = @ \/ Reading(d)]
  /\ UNCHANGED <<local, rx, inbox, made, astray, alarmed, out, mishaps>>

(* One who still holds a record of the group, gone or not, is not invited in
   good order: the invitation changes nothing there. *)
GroupAdd(d, who) ==
  /\ who \in contacts[d] /\ who \notin rec[d].members
  /\ Cardinality(rec[d].members) < MaxMembers
  /\ RequireGroup(d, "add", who, "save", {who})
  /\ quiet' = (quiet /\ Orderly("add") /\ rec[who] = NoGroup)

(* The UID of this very device is accepted too; nobody heeds the notice. *)
GroupRemove(d, who) ==
  /\ who \in rec[d].members
  /\ RequireGroup(d, "remove", who, "save", rec[d].members \ {d})
  /\ quiet' = (quiet /\ Orderly("remove") /\ who # d)

(* Mutant: the notice goes to this device as well. *)
MutGroupLeave(d) ==
  /\ RequireGroup(d, "leave", NoDevice, "fan", rec[d].members)
  /\ quiet' = (quiet /\ Orderly("leave"))

GroupLeave(d) ==
  /\ RequireGroup(d, "leave", NoDevice, "fan", rec[d].members \ {d})
  /\ quiet' = (quiet /\ Orderly("leave"))

(* The roster a command leaves, which its notices carry. *)
After(d) ==
  LET c == cmd[d]
  IN CASE c.op = "add" -> c.base.members \cup {c.who}
       [] c.op = "remove" -> c.base.members \ {c.who}
       [] c.op = "leave" -> c.base.members \ {d}
       [] OTHER -> c.base.members

Named(d, u) == out' = [out EXCEPT ![d] = @ \ {u}]
Gone(d, u) == out' = [out EXCEPT ![d] = @ \cup {u}]

(* /group add and /group remove write the record before they tell anyone. *)
SaveChange(d) ==
  /\ cmd[d].pc = "save"
  /\ SaveGroup(d, Group(After(d), cmd[d].base.active))
  /\ CASE cmd[d].op = "add" -> Named(d, cmd[d].who)
       [] cmd[d].who = d -> UNCHANGED out
       [] OTHER -> Gone(d, cmd[d].who)
  /\ Become(d, [cmd[d] EXCEPT !.pc = "fan"])
  /\ UNCHANGED <<contacts, rx, inbox, made, quiet, astray, alarmed, overlap,
                 commands, mishaps>>

(* Mutant: the roster of a notice is whom the notice goes to. *)
MutNotice(d) ==
  LET c == cmd[d]
  IN CASE c.op = "add" /\ c.pc = "fan" -> Envelope(d, "invite", NoDevice, {d, c.who})
       [] c.op = "remove" \/ c.pc = "tell" -> Envelope(d, c.op, c.who, After(d))
       [] OTHER -> Envelope(d, c.op, NoDevice, After(d))

(* What goes out: to the one who is added an invitation, to all others what
   has changed, and always the full roster after the change. *)
Notice(d) ==
  LET c == cmd[d]
  IN CASE c.op = "add" /\ c.pc = "fan" -> Envelope(d, "invite", NoDevice, After(d))
       [] c.op = "remove" \/ c.pc = "tell" -> Envelope(d, c.op, c.who, After(d))
       [] OTHER -> Envelope(d, c.op, NoDevice, After(d))

(* One leg of a fan-out.  Someone who is no contact, and a request that
   fails, is reported and does not stop the others.  (A lost answer is
   reported as a failure too, and changes nothing else.) *)
PostLeg(d, u, sent) ==
  /\ cmd[d].pc \in {"fan", "tell"} /\ u \in cmd[d].legs
  /\ sent => u \in contacts[d]
  /\ IF u \in contacts[d] /\ ~sent
     THEN mishaps < MaxMishaps /\ mishaps' = mishaps + 1
     ELSE UNCHANGED mishaps
  /\ inbox' = IF sent THEN [inbox EXCEPT ![u] = Append(@, Notice(d))] ELSE inbox
  /\ Become(d, [cmd[d] EXCEPT !.legs = @ \ {u}])
  /\ quiet' = (quiet /\ sent)
  /\ UNCHANGED <<local, rx, made, astray, alarmed, overlap, out, commands>>

(* The fan-out is over.  An addition has a second one, to the others; only
   now does the one who leaves write that it has. *)
FanOutDone(d) ==
  LET c == cmd[d]
  IN /\ c.pc \in {"fan", "tell"} /\ c.legs = {}
     /\ IF c.op = "add" /\ c.pc = "fan"
        THEN Become(d, [c EXCEPT !.pc = "tell", !.legs = c.base.members \ {d}])
        ELSE Become(d, Idle)
     /\ IF c.op = "leave"
        THEN /\ SaveGroup(d, Group(After(d), FALSE)) /\ Gone(d, d)
        ELSE UNCHANGED <<rec, out>>
     /\ UNCHANGED <<contacts, rx, inbox, made, quiet, astray, alarmed, overlap,
                    commands, mishaps>>

(* sendGroupText reads the record again, in case the group that is on screen
   has been left meanwhile.  A record whose roster has shrunk to nothing or
   grown beyond the cap cannot be read any more: the copy on screen is used,
   as it was when the group was opened. *)
Fresh(d) ==
  IF Known(d) THEN {rec[d]}
  ELSE IF rec[d] = NoGroup THEN {}
  ELSE {g \in {Group(members, TRUE) : members \in SUBSET Device} : IsValidGroup(g)}

(* Mutant: whether this device has left is not looked at. *)
MutMaySend(group) == TRUE

MaySend(group) == group.active

SendText(d) ==
  /\ Run(d)
  /\ \E group \in Fresh(d) :
       /\ MaySend(group)
       /\ Become(d, Flow("fan", "msg", NoDevice, group, group.members \ {d}))
  /\ quiet' = (quiet /\ Orderly("msg") /\ Known(d))
  /\ UNCHANGED <<local, rx, inbox, made, astray, alarmed, overlap, out, mishaps>>

GroupSync(d) ==
  /\ cmd[d] = Idle /\ Known(d)
  /\ contacts' = [contacts EXCEPT ![d] = @ \cup (rec[d].members \ {d})]
  /\ UNCHANGED <<rec, cmd, rx, inbox, made, history, commands, mishaps>>

(* Only one who is out of the group purges it in good order. *)
GroupPurge(d) ==
  /\ cmd[d] = Idle /\ Known(d)
  /\ SaveGroup(d, NoGroup)
  /\ out' = [out EXCEPT ![d] = {}]
  /\ overlap' = [overlap EXCEPT ![d] = Reading(d)]
  /\ quiet' = (quiet /\ Settled /\ ~rec[d].active)
  /\ UNCHANGED <<contacts, cmd, rx, inbox, made, astray, alarmed, commands, mishaps>>

-----------------------------------------------------------------------------
(* What arrives. *)

(* Both must be on the roster, except for the one who has just gone. *)
Listed(d, env) ==
  /\ env.from \in env.members \/ env.action = "leave"
  /\ d \in env.members \/ (env.action = "remove" /\ env.subject = d)

(* decodeGroupEnvelope: a roster within the cap (sanitizeRoster), and a
   subject exactly where the action has one. *)
Decodes(env) ==
  /\ env.members # {} /\ Cardinality(env.members) <= MaxMembers
  /\ (env.action \in {"add", "remove"}) = (env.subject # NoDevice)

(* Not a group message at all; or E513; or a group this device does not know
   and is not invited to. *)
Refused(d, env) ==
  \/ ~Decodes(env)
  \/ env.from \notin contacts[d]
  \/ ~Listed(d, env)
  \/ Known(d) /\ env.from \notin rec[d].members
  \/ ~Known(d) /\ env.action # "invite"

(* Mutant: the sender's roster is taken over. *)
MutAnnounced(members, env) == env.members

(* applyAnnouncedChange: what the message announces, applied to one's own
   roster; the sender's is never taken over. *)
Announced(members, env) ==
  CASE env.action = "add" -> members \cup {env.subject}
    [] env.action = "remove" -> members \ {env.subject}
    [] env.action = "leave" -> members \ {env.from}
    [] OTHER -> members

(* Mutant: the rosters are compared before the change is applied. *)
MutDiverges(base, env) == base.members # env.members

(* warnOnRosterDivergence *)
Diverges(base, env) == Announced(base.members, env) # env.members

Refuse(d, env) ==
  /\ Refused(d, env)
  /\ quiet' = (quiet /\ env.from \in contacts[d])
  /\ astray' = (astray \/ (quiet' /\ env.action = "msg"))
  /\ UNCHANGED <<rx, alarmed, overlap>>

Warn(d, base, env) == alarmed' = (alarmed \/ (quiet /\ Diverges(base, env)))

(* A text is recorded, whether or not this device is still in the group; an
   invitation to a group it knows does nothing else. *)
ShowText(d, env) ==
  /\ ~Refused(d, env) /\ Known(d) /\ env.action \in {"invite", "msg"}
  /\ Warn(d, rec[d], env)
  /\ astray' = (astray \/ (quiet /\ env.action = "msg" /\ ~rec[d].active))
  /\ UNCHANGED <<rx, quiet, overlap>>

(* What changes the record reads it first. *)
TakeUp(d, env) ==
  /\ ~Refused(d, env) /\ (Known(d) => env.action \notin {"invite", "msg"})
  /\ rx' = [rx EXCEPT ![d] = [pc |-> "apply", env |-> env, base |-> LoadGroup(d)]]
  /\ overlap' = [overlap EXCEPT ![d] = @ \/ Holding(d)]
  /\ UNCHANGED <<quiet, astray, alarmed>>

ReadNext(d) ==
  /\ rx[d] = Listening /\ inbox[d] # <<>>
  /\ inbox' = [inbox EXCEPT ![d] = Tail(@)]
  /\ LET env == Head(inbox[d]) IN Refuse(d, env) \/ ShowText(d, env) \/ TakeUp(d, env)
  /\ UNCHANGED <<local, cmd, made, out, commands, mishaps>>

Join(d) ==
  LET r == rx[d]
  IN /\ r.base = NoGroup
     /\ SaveGroup(d, Group(r.env.members, TRUE))
     /\ out' = [out EXCEPT ![d] = {}]
     /\ UNCHANGED alarmed

(* A change is written over the record that was read. *)
ApplyChange(d) ==
  LET r == rx[d]
      leftBehind == r.env.action = "remove" /\ r.env.subject = d
  IN /\ r.base # NoGroup /\ r.env.action \in {"add", "remove", "leave"}
     /\ SaveGroup(d, Group(Announced(r.base.members, r.env), r.base.active /\ ~leftBehind))
     /\ CASE r.env.action = "add" -> Named(d, r.env.subject)
          [] r.env.action = "remove" -> Gone(d, r.env.subject)
          [] r.env.action = "leave" -> Gone(d, r.env.from)
     /\ Warn(d, r.base, r.env)

Apply(d) ==
  /\ Reading(d)
  /\ Join(d) \/ ApplyChange(d)
  /\ rx' = [rx EXCEPT ![d] = Listening]
  /\ UNCHANGED <<contacts, cmd, inbox, made, quiet, astray, overlap, commands, mishaps>>

(* The tab is closed, or the device locked: what the lanes were at is lost,
   a message that had been opened with it. *)
Close(d) ==
  /\ mishaps < MaxMishaps /\ mishaps' = mishaps + 1
  /\ cmd[d] # Idle \/ rx[d] # Listening
  /\ cmd' = [cmd EXCEPT ![d] = Idle] /\ rx' = [rx EXCEPT ![d] = Listening]
  /\ quiet' = FALSE
  /\ UNCHANGED <<rec, contacts, inbox, made, astray, alarmed, overlap, out, commands>>

-----------------------------------------------------------------------------
Command(d) ==
  \/ \E others \in SUBSET Device : GroupNew(d, others)
  \/ \E who \in Device : GroupAdd(d, who) \/ GroupRemove(d, who)
  \/ GroupLeave(d) \/ SendText(d) \/ GroupSync(d) \/ GroupPurge(d)

FanOut(d) ==
  \/ SaveChange(d) \/ FanOutDone(d)
  \/ \E u \in Device, sent \in BOOLEAN : PostLeg(d, u, sent)

GroupNext ==
  \E d \in Device : Command(d) \/ FanOut(d) \/ ReadNext(d) \/ Apply(d) \/ Close(d)

GroupSpec == GroupInit /\ [][GroupNext]_groupVars

-----------------------------------------------------------------------------
Groups == [members : SUBSET Device, active : BOOLEAN]
(* An addition and a removal name someone, the others nobody. *)
Envelopes ==
  [from : Device, action : {"invite", "leave", "msg"}, subject : {NoDevice},
   members : SUBSET Device]
    \cup [from : Device, action : {"add", "remove"}, subject : Device,
          members : SUBSET Device]

(* The types, and that no device is its own contact or sends to itself
   (messaging.ts:140). *)
GroupsTyped ==
  /\ rec \in [Device -> Groups]
  /\ contacts \in [Device -> SUBSET Device]
  /\ \A d \in Device : d \notin contacts[d]
  /\ cmd \in [Device -> [pc : {"rest", "save", "fan", "tell"},
                         op : {"none", "invite", "add", "remove", "leave", "msg"},
                         who : Device \cup {NoDevice}, base : Groups, legs : SUBSET Device]]
  /\ \A d \in Device : d \notin cmd[d].legs
  /\ rx \in [Device -> [pc : {"idle", "apply"}, env : Envelopes \cup {NoEnvelope}, base : Groups]]
  /\ inbox \in [Device -> Seq(Envelopes)]
  /\ {made, quiet, astray, alarmed} \subseteq BOOLEAN
  /\ overlap \in [Device -> BOOLEAN] /\ out \in [Device -> SUBSET Device]
  /\ commands \in 0 .. MaxCommands /\ mishaps \in 0 .. MaxMishaps

(* Once the changes made one after the other have reached everyone, all who
   are in the group hold the same roster, and it is they: nobody believes to
   be in it whom the others struck off (messaging.ts:849). *)
SettledAgree ==
  quiet /\ Settled =>
    \A d \in Device : rec[d].active =>
      /\ d \in rec[d].members
      /\ \A e \in rec[d].members : rec[e] = rec[d]

(* In such use no device warns of a different member list: the warning means
   something (messaging.ts:918). *)
NoFalseAlarm == ~alarmed

(* In such use a text that was sent is read by everyone it was sent to, and
   by nobody who is out of the group (group-commands.ts:412). *)
TextsLand == ~astray

(* Whom a device saw go comes back only by name, whatever rosters arrive;
   unless its own two lanes wrote the record over each other
   (groups.ts:168, messaging.ts:865). *)
RemovedStaysOut ==
  \A d \in Device : Known(d) /\ ~overlap[d] =>
    /\ out[d] \cap rec[d].members = {}
    /\ d \in out[d] => ~rec[d].active

-----------------------------------------------------------------------------
(* What these rest on.  First, what a lane holds. *)
CommandInHand(d) ==
  \/ cmd[d] = Idle
  \/ /\ cmd[d].op = "add" /\ cmd[d].who \in Device \ {d}
     /\ cmd[d].pc \in {"save", "fan", "tell"}
  \/ /\ cmd[d].op = "remove" /\ cmd[d].who \in Device
     /\ cmd[d].pc \in {"save", "fan"}
  \/ cmd[d].op \in {"invite", "leave", "msg"} /\ cmd[d].who = NoDevice /\ cmd[d].pc = "fan"

MessageInHand(d) ==
  \/ rx[d] = Listening
  \/ /\ Reading(d) /\ rx[d].env \in Envelopes /\ rx[d].env.from # d
     /\ rx[d].env.action \in (IF rx[d].base = NoGroup THEN {"invite"}
                              ELSE {"add", "remove", "leave"})

(* As long as its lanes take turns, the record a device holds is the one it
   has stored. *)
RecordInHand(d) ==
  /\ ~(Holding(d) /\ Reading(d))
  /\ Holding(d) => Known(d) /\ cmd[d].base = rec[d]
  /\ Reading(d) => rx[d].base = LoadGroup(d)

Untouched(d) ==
  /\ rec[d] = NoGroup /\ cmd[d] = Idle /\ rx[d] = Listening
  /\ inbox[d] = <<>> /\ out[d] = {}

LaneInv ==
  /\ GroupsTyped /\ RemovedStaysOut
  /\ \A d \in Device : /\ CommandInHand(d) /\ MessageInHand(d)
                       /\ ~overlap[d] => RecordInHand(d)
                       /\ ~made => Untouched(d)

(* Second, quiet use.  Records agree when all who are in hold the roster they
   are on, and nobody who is out is taken for a member by one they list. *)
Agree(r) ==
  \A d \in Device :
    IF r[d].active
    THEN /\ d \in r[d].members /\ IsValidGroup(r[d])
         /\ \A e \in r[d].members : r[e] = r[d]
    ELSE \A e \in r[d].members : d \notin r[e].members

(* Whom a command has yet to write to. *)
Owing(d) ==
  cmd[d].legs \cup
    (IF cmd[d].op = "add" /\ cmd[d].pc \in {"save", "fan"} THEN cmd[d].base.members \ {d} ELSE {})

(* Nothing is going on, or texts are. *)
TextFor(d, env) ==
  /\ env.action = "msg" /\ env.from \in Device /\ rec[env.from].active
  /\ d \in env.members /\ env.members = rec[env.from].members
Texting(d) ==
  /\ cmd[d].op = "msg" /\ rec[d].active
  /\ cmd[d].base = rec[d] /\ cmd[d].legs \subseteq rec[d].members
OnlyTexts ==
  /\ Agree(rec)
  /\ \A d \in Device : /\ rx[d] = Listening
                       /\ cmd[d] = Idle \/ Texting(d)
                       /\ \A i \in 1 .. Len(inbox[d]) : TextFor(d, inbox[d][i])

(* One who is out makes a change, which nobody heeds. *)
VainFrom(x, d, env) ==
  /\ env.from = x /\ env.action # "msg" /\ x \notin rec[d].members
  /\ env.action = "invite" => x \notin env.members
InVain(x) ==
  /\ Agree(rec) /\ ~rec[x].active
  /\ \A d \in Device : /\ rx[d] = Listening
                       /\ d # x => cmd[d] = Idle
                       /\ \A i \in 1 .. Len(inbox[d]) : VainFrom(x, d, inbox[d][i])
  /\ \/ cmd[x] = Idle
     \/ /\ cmd[x].op \in {"add", "remove", "leave"}
        /\ x # cmd[x].who /\ x \notin cmd[x].base.members /\ ~cmd[x].base.active
        /\ Holding(x) => cmd[x].base = rec[x]
        /\ cmd[x].op = "add" /\ cmd[x].pc = "save" => rec[cmd[x].who] = NoGroup
        /\ \A d \in Owing(x) : x \notin rec[d].members

(* A member makes a change c, and the others are told. *)
Changes ==
  [by : Device, op : {"invite", "add", "remove", "leave"},
   who : Device \cup {NoDevice}, members : SUBSET Device]
Roster(c) ==
  CASE c.op = "add" -> c.members \cup {c.who}
    [] c.op = "remove" -> c.members \ {c.who}
    [] c.op = "leave" -> c.members \ {c.by}
    [] OTHER -> c.members
Audience(c) == (c.members \cup (IF c.op = "add" THEN {c.who} ELSE {})) \ {c.by}
Invited(c, d) == c.op = "invite" \/ (c.op = "add" /\ d = c.who)
InOrder(c) ==
  /\ c.by \in c.members
  /\ Cardinality(c.members) <= MaxMembers /\ Cardinality(Roster(c)) <= MaxMembers
  /\ c.op = "add" => c.who \in Device \ c.members
  /\ c.op = "remove" => c.who \in c.members \ {c.by}
  /\ c.op \in {"invite", "leave"} => c.who = NoDevice

Before(c, d) == IF Invited(c, d) THEN NoGroup ELSE Group(c.members, TRUE)
Outcome(c) ==
  [d \in Device |->
     IF d = c.by THEN Group(Roster(c), c.op # "leave")
     ELSE IF d \in Audience(c) THEN Group(Roster(c), ~(c.op = "remove" /\ d = c.who))
     ELSE rec[d]]
Letter(c, d) ==
  IF Invited(c, d) THEN Envelope(c.by, "invite", NoDevice, Roster(c))
                   ELSE Envelope(c.by, c.op, c.who, Roster(c))

Announcing(c) ==
  LET d == c.by
  IN /\ rx[d] = Listening /\ inbox[d] = <<>> /\ Owing(d) \subseteq Audience(c)
     /\ \/ cmd[d] = Idle /\ rec[d] = Outcome(c)[d]
        \/ /\ cmd[d].op = c.op /\ cmd[d].who = c.who
           /\ cmd[d].base = Group(c.members, TRUE)
           /\ c.op = "add" => cmd[d].legs \subseteq (IF cmd[d].pc = "tell" THEN c.members
                                                                     ELSE {c.who})
           /\ rec[d] = IF Holding(d) THEN cmd[d].base ELSE Outcome(c)[d]
Told(c, d) ==
  \/ /\ inbox[d] = <<>> /\ rx[d] = Listening
     /\ rec[d] = IF d \in Owing(c.by) THEN Before(c, d) ELSE Outcome(c)[d]
  \/ /\ d \notin Owing(c.by) /\ rec[d] = Before(c, d)
     /\ \/ inbox[d] = <<Letter(c, d)>> /\ rx[d] = Listening
        \/ /\ inbox[d] = <<>>
           /\ rx[d] = [pc |-> "apply", env |-> Letter(c, d), base |-> Before(c, d)]
Changing(c) ==
  /\ InOrder(c) /\ Agree(Outcome(c)) /\ Announcing(c)
  /\ \A d \in Device \ {c.by} :
       /\ cmd[d] = Idle
       /\ IF d \in Audience(c) THEN Told(c, d) ELSE inbox[d] = <<>> /\ rx[d] = Listening

QuietInv ==
  /\ ~alarmed /\ ~astray
  /\ quiet => \/ OnlyTexts
              \/ \E x \in Device : InVain(x)
              \/ \E c \in Changes : Changing(c)

GroupInv == LaneInv /\ QuietInv
===============================================================================
