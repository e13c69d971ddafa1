------------------------------- MODULE Terminal -------------------------------
(***************************************************************************)
(* The executor above the shell (executor/index.ts): lines become messages *)
(* and commands, one command at a time may be in flight, some of them ask  *)
(* at prompts, and several change which conversation is on screen, at once *)
(* or after an await.  The keystore appears as locked or not, with the     *)
(* timer that locks it when idle.                                          *)
(*                                                                         *)
(* Which contacts there are, and what they are called, is left open: every *)
(* look-up may find any, or none.  A command that does not prompt, lock or *)
(* move the focus is one of many ("plain").                                *)
(***************************************************************************)
EXTENDS Shell

CONSTANTS
  Uid,      \* contacts
  Alias,    \* their names
  Group,    \* groups
  NoOne     \* no contact, no group, no screen

ASSUME Distinct ==
  /\ NoOne \notin Uid \cup Group \cup (Uid \X Alias) \cup {Home}
  /\ Home \notin Uid \cup Group \cup Alias
  /\ Uid \cap Group = {}

VARIABLES
  flow,            \* the command in flight
  store,           \* "none", "locked", "unlocked"
  timer,           \* autoLockTimer: "off", "armed"
  active,          \* the contact on screen, as it was looked up
  activeGroup,     \* the group on screen
  previousView,    \* the screen /return goes to
  wipeRequested,   \* wipeRequestedAt: /wipe was asked for once
  stranded         \* history: the home screen was shown, a group stayed active

execVars == <<flow, store, timer, active, activeGroup, previousView, wipeRequested, stranded>>
vars == <<shellVars, execVars>>

(* at: "work" (between awaits), "prompt", "end" (nothing left to do). *)
Idle == [cmd |-> "none", on |-> NoOne, asks |-> <<>>, at |-> "idle"]
Flow(cmd, on, asks) == [cmd |-> cmd, on |-> on, asks |-> asks, at |-> "work"]

Init ==
  /\ ShellInit
  /\ flow = Idle
  /\ store \in {"none", "locked"}
  /\ timer = "off"
  /\ active = NoOne /\ activeGroup = NoOne /\ previousView = NoOne
  /\ wipeRequested = FALSE
  /\ stranded = FALSE

-----------------------------------------------------------------------------
Touched == IF store = "unlocked" THEN "armed" ELSE "off"

(* run: a command that does not start while another is in flight. *)
Run(f) ==
  IF flow = Idle THEN flow' = f /\ timer' = "off"
                 ELSE flow' = flow /\ timer' = Touched

CurrentView ==
  IF activeGroup # NoOne THEN activeGroup ELSE IF active # NoOne THEN active[1] ELSE Home

Focus(contact, group) ==
  /\ active' = contact /\ activeGroup' = group
  /\ stranded' = FALSE

GoTo(contact, group) ==
  /\ Focus(contact, group)
  /\ prompt' = IF group # NoOne THEN group ELSE IF contact # NoOne THEN contact[2] ELSE Home

(* The screen left behind, unless it is the one shown next. *)
Remember(view) ==
  previousView' = IF CurrentView = view THEN previousView ELSE CurrentView

lockLocal ==
  /\ store' = IF store = "none" THEN "none" ELSE "locked"
  /\ timer' = "off"
  /\ activeGroup' = NoOne /\ previousView' = NoOne /\ stranded' = FALSE

-----------------------------------------------------------------------------
(* handle: a submitted line.  Touching the auto-lock timer comes first, also
   while a command is in flight. *)
Line(blank, command) ==
  /\ SubmitLine
  /\ blank \/ buffer # {}
  /\ wipeRequested' = (wipeRequested /\ ~command)

SameFocus == UNCHANGED <<active, activeGroup, previousView, stranded>>

(* Blank and invalid lines, a message with nobody to send it to. *)
Ignored ==
  /\ Line(TRUE, FALSE)
  /\ timer' = Touched
  /\ SamePrompt /\ SameFocus /\ UNCHANGED <<flow, store>>

(* /help, /whoami, /clr. *)
Shown ==
  /\ Line(FALSE, TRUE)
  /\ timer' = Touched
  /\ SamePrompt /\ SameFocus /\ UNCHANGED <<flow, store>>

Message ==
  /\ active # NoOne \/ activeGroup # NoOne
  /\ Line(FALSE, FALSE)
  /\ Run(Flow("plain", NoOne, <<>>))
  /\ SamePrompt /\ SameFocus /\ UNCHANGED store

GoHome ==
  /\ Line(FALSE, TRUE)
  /\ Remember(Home)
  /\ GoTo(NoOne, NoOne)
  /\ timer' = Touched
  /\ UNCHANGED <<asking, savedPrompt, flow, store>>

(* openChat; the inline form then sends, unless a command is in flight. *)
Chat(contact, inline) ==
  /\ Line(FALSE, TRUE)
  /\ Remember(contact[1])
  /\ GoTo(contact, NoOne)
  /\ IF inline THEN Run(Flow("plain", NoOne, <<>>)) ELSE flow' = flow /\ timer' = Touched
  /\ UNCHANGED <<asking, savedPrompt, store>>

Lock ==
  /\ Line(FALSE, TRUE)
  /\ lockLocal
  /\ SamePrompt /\ UNCHANGED <<active, flow>>

(* Twice within WIPE_CONFIRM_WINDOW_MS; `late' when it was not. *)
Wipe(late) ==
  /\ SubmitLine /\ buffer # {}
  /\ SamePrompt
  /\ IF flow # Idle
     THEN Run(Idle) /\ SameFocus /\ UNCHANGED <<store, wipeRequested>>
     ELSE IF ~wipeRequested \/ late
     THEN /\ wipeRequested' = TRUE
          /\ Run(Flow("plain", NoOne, <<>>))
          /\ SameFocus /\ UNCHANGED store
     ELSE /\ wipeRequested' = FALSE
          /\ flow' = Flow("wipe", NoOne, <<>>)
          /\ lockLocal /\ UNCHANGED active

(* /return up to its first await: only a group has to be loaded. *)
Return ==
  /\ Line(FALSE, TRUE)
  /\ Run(Flow("return", previousView, <<>>))
  /\ UNCHANGED <<asking, savedPrompt, store>>
  /\ IF flow # Idle \/ previousView = NoOne
     THEN SameFocus /\ UNCHANGED prompt
     ELSE IF previousView \in Group
     THEN previousView' = CurrentView /\ UNCHANGED <<active, activeGroup, stranded, prompt>>
     ELSE \/ previousView = Home /\ previousView' = CurrentView /\ GoTo(NoOne, NoOne)
          \/ /\ previousView \in Uid /\ previousView' = CurrentView
             /\ \E name \in Alias : GoTo(<<previousView, name>>, NoOne)
          \/ previousView \in Uid /\ previousView' = NoOne /\ GoTo(NoOne, NoOne)

(* The other commands that go through run, with what they may ask for. *)
Asking ==
  {<<"register", NoOne, <<"secret", "secret">>>>,
   <<"recover", NoOne, <<"answer", "secret", "secret", "secret">>>>,
   <<"recover", NoOne, <<"answer", "answer", "secret", "secret", "secret">>>>,
   <<"login", NoOne, <<"secret">>>>,
   <<"plain", NoOne, <<"secret", "secret", "secret">>>>,
   <<"plain", NoOne, <<"secret", "secret", "secret", "answer">>>>,
   <<"plain", NoOne, <<"answer">>>>}
Silent ==
  {<<"plain", NoOne, <<>>>>, <<"logout", NoOne, <<>>>>}
  \cup {<<cmd, u, <<>>>> : cmd \in {"remove", "rename"}, u \in Uid}
  \cup {<<cmd, g, <<>>>> : cmd \in {"open", "leave"}, g \in Group}

(* Those that a locked store refuses at once (E403) are then "plain". *)
Command(f) ==
  /\ Line(FALSE, TRUE)
  /\ f[1] \in {"remove", "rename", "open", "leave"} => store = "unlocked"
  /\ Run(Flow(f[1], f[2], f[3]))
  /\ SamePrompt /\ SameFocus /\ UNCHANGED store

(* /remove all and /duress set ask before their first await. *)
AskingAtOnce ==
  {<<"removeAll", <<"answer">>>>, <<"plain", <<"answer", "secret", "secret">>>>}

CommandAsks(f) ==
  /\ Line(FALSE, TRUE)
  /\ flow = Idle /\ store = "unlocked"
  /\ flow' = [Flow(f[1], NoOne, Tail(f[2])) EXCEPT !.at = "prompt"]
  /\ Ask(Head(f[2]))
  /\ timer' = "off"
  /\ SameFocus /\ UNCHANGED store

HandleLine ==
  \/ Ignored \/ Shown \/ Message \/ GoHome \/ Lock \/ Return
  \/ \E contact \in Uid \X Alias, inline \in BOOLEAN : Chat(contact, inline)
  \/ \E late \in BOOLEAN : Wipe(late)
  \/ \E f \in Asking \cup Silent : Command(f)
  \/ \E f \in AskingAtOnce : CommandAsks(f)

-----------------------------------------------------------------------------
(* The command in flight.  Between two of its steps any key may come. *)
AskNext ==
  /\ flow.at = "work" /\ flow.asks # <<>>
  /\ ~(flow.cmd = "login" /\ store = "unlocked")
  /\ flow' = [flow EXCEPT !.at = "prompt", !.asks = Tail(@)]
  /\ ReadInput(Head(flow.asks))
  /\ UNCHANGED <<store, timer, active, activeGroup, previousView, wipeRequested, stranded>>

Answer ==
  /\ Settle
  /\ flow' = [flow EXCEPT !.at = IF @ = "prompt" THEN "work" ELSE @]
  /\ UNCHANGED <<store, timer, active, activeGroup, previousView, wipeRequested, stranded>>

\* Mutant: Ctrl+C puts the prompt away without answering the command.
MutCancel == (AbandonLine \/ Settle) /\ UNCHANGED execVars

(* Ctrl+C: null, upon which every command gives up. *)
Cancel ==
  \/ AbandonLine /\ UNCHANGED execVars
  \/ /\ Settle
     /\ flow' = [flow EXCEPT !.at = IF @ = "prompt" THEN "end" ELSE @]
     /\ UNCHANGED <<store, timer, active, activeGroup, previousView, wipeRequested, stranded>>

\* Mutant: a command that is over does not touch the idle timer.
MutFinish ==
  /\ flow.at \in {"work", "end"}
  /\ flow' = Idle
  /\ SameFocus /\ UNCHANGED <<shellVars, store, timer, wipeRequested>>

(* Done, refused, or failed: the finally of run. *)
Finish ==
  /\ flow.at \in {"work", "end"}
  /\ flow' = Idle
  /\ timer' = Touched
  /\ SameFocus /\ UNCHANGED <<shellVars, store, wipeRequested>>

(* What the command in flight does after its last await but one. *)
Acting(cmd) == flow.cmd = cmd /\ flow.at = "work" /\ flow.asks = <<>>
Done == flow' = [flow EXCEPT !.at = "end"]

Register ==
  /\ Acting("register") /\ store = "none"
  /\ store' = "unlocked" /\ Done
  /\ SameFocus /\ UNCHANGED <<shellVars, timer, wipeRequested>>

(* The server has replaced the identity: tear down, wipe what store there was
   (when that fails, the command does), rebuild. *)
Recover ==
  /\ Acting("recover")
  /\ flow' = Flow(IF store = "none" THEN "register" ELSE "rebuild", NoOne, <<>>)
  /\ store' = (IF store = "none" THEN "none" ELSE "locked")
  /\ timer' = "off" /\ previousView' = NoOne
  /\ GoTo(NoOne, NoOne)
  /\ SetPrompt /\ UNCHANGED wipeRequested

WipeForRecover ==
  /\ Acting("rebuild")
  /\ flow' = Flow("register", NoOne, <<>>)
  /\ store' = "none"
  /\ SameFocus /\ UNCHANGED <<shellVars, timer, wipeRequested>>

Unlock ==
  /\ Acting("login") /\ store = "locked"
  /\ store' = "unlocked" /\ Done
  /\ SameFocus /\ UNCHANGED <<shellVars, timer, wipeRequested>>

(* The passphrase was the duress one. *)
Duress ==
  /\ Acting("login") /\ store = "locked"
  /\ flow' = Flow("purge", NoOne, <<>>)
  /\ lockLocal
  /\ UNCHANGED <<shellVars, active, wipeRequested>>

(* After the store is gone; a wipe that fails stops /wipe, not the purge. *)
Purge(cmd) ==
  /\ Acting(cmd)
  /\ store' \in {"none"} \cup (IF cmd = "purge" THEN {store} ELSE {})
  /\ prompt' = Home /\ active' = NoOne
  /\ IF cmd = "purge" THEN previousView' = NoOne /\ wipeRequested' = FALSE
                      ELSE UNCHANGED <<previousView, wipeRequested>>
  /\ Done
  /\ SetPrompt /\ UNCHANGED <<timer, activeGroup, stranded>>

Logout ==
  /\ Acting("logout")
  /\ lockLocal /\ Done
  /\ UNCHANGED <<shellVars, active, wipeRequested>>

(* goHomeAfterRemoval leaves activeGroup as it is. *)
GoHomeAfterRemoval ==
  /\ active' = NoOne /\ previousView' = NoOne /\ prompt' = Home
  /\ stranded' = (activeGroup # NoOne)
  /\ SetPrompt /\ UNCHANGED activeGroup

Remove ==
  /\ Acting("remove") /\ Done
  /\ IF active # NoOne /\ active[1] = flow.on
     THEN GoHomeAfterRemoval
     ELSE /\ previousView' = IF previousView = flow.on THEN NoOne ELSE previousView
          /\ UNCHANGED <<shellVars, active, activeGroup, stranded>>
  /\ UNCHANGED <<store, timer, wipeRequested>>

RemoveAll ==
  /\ Acting("removeAll") /\ Done
  /\ GoHomeAfterRemoval
  /\ UNCHANGED <<store, timer, wipeRequested>>

\* Mutant: the contact on screen is renamed, its prompt is not.
MutRename ==
  /\ Acting("rename") /\ Done
  /\ active # NoOne /\ active[1] = flow.on
  /\ \E name \in Alias : active' = <<flow.on, name>>
  /\ UNCHANGED <<shellVars, store, timer, activeGroup, previousView, wipeRequested, stranded>>

Rename ==
  /\ Acting("rename") /\ Done
  /\ active # NoOne /\ active[1] = flow.on
  /\ \E name \in Alias :
       /\ active' = <<flow.on, name>> /\ prompt' = name
  /\ SetPrompt
  /\ UNCHANGED <<store, timer, activeGroup, previousView, wipeRequested, stranded>>

Open ==
  /\ Acting("open") /\ Done
  /\ Remember(flow.on)
  /\ GoTo(NoOne, flow.on)
  /\ SetPrompt /\ UNCHANGED <<store, timer, wipeRequested>>

(* /group leave and /group purge of the group on screen. *)
Leave ==
  /\ Acting("leave") /\ Done
  /\ activeGroup = flow.on
  /\ activeGroup' = NoOne /\ prompt' = Home /\ stranded' = FALSE
  /\ SetPrompt /\ UNCHANGED <<store, timer, active, previousView, wipeRequested>>

(* /return once the group is loaded, or found to be gone. *)
ReturnToGroup ==
  /\ Acting("return") /\ flow.on \in Group /\ Done
  /\ \/ GoTo(NoOne, flow.on) /\ UNCHANGED previousView
     \/ GoTo(NoOne, NoOne) /\ previousView' = NoOne
  /\ SetPrompt /\ UNCHANGED <<store, timer, wipeRequested>>

FlowStep ==
  \/ AskNext \/ Finish
  \/ Register \/ Recover \/ WipeForRecover \/ Unlock \/ Duress \/ Purge("wipe") \/ Purge("purge") \/ Logout
  \/ Remove \/ RemoveAll \/ Rename \/ Open \/ Leave \/ ReturnToGroup

-----------------------------------------------------------------------------
(* The idle timer runs out: lockLocal. *)
AutoLock ==
  /\ timer = "armed"
  /\ lockLocal
  /\ UNCHANGED <<shellVars, flow, active, wipeRequested>>

(* The receive lane learns that we were removed from the group on screen. *)
LeftBehind ==
  /\ activeGroup # NoOne
  /\ activeGroup' = NoOne /\ prompt' = Home /\ stranded' = FALSE
  /\ SetPrompt
  /\ UNCHANGED <<flow, store, timer, active, previousView, wipeRequested>>

Next ==
  \/ Key /\ UNCHANGED execVars
  \/ HandleLine \/ Answer \/ Cancel
  \/ FlowStep \/ AutoLock \/ LeftBehind

Spec == Init /\ [][Next]_vars

-----------------------------------------------------------------------------
FlowType ==
  [cmd : {"none", "plain", "register", "recover", "rebuild", "login", "logout", "wipe", "purge",
          "remove", "removeAll", "rename", "open", "leave", "return"},
   on : Uid \cup Group \cup {NoOne, Home},
   asks : Seq({"answer", "secret"}),
   at : {"idle", "work", "prompt", "end"}]

TypeOK ==
  /\ ShellTypeOK
  /\ prompt \in Alias \cup Group \cup {Home} \cup (IF asking = "no" THEN {} ELSE {Question})
  /\ savedPrompt \in Alias \cup Group \cup {Home}
  /\ flow \in FlowType
  /\ (flow.at = "idle") <=> (flow = Idle)
  /\ flow.cmd \in {"open", "leave"} => flow.on \in Group
  /\ store \in {"none", "locked", "unlocked"} /\ timer \in {"off", "armed"}
  /\ active \in (Uid \X Alias) \cup {NoOne}
  /\ activeGroup \in Group \cup {NoOne}
  /\ previousView \in Uid \cup Group \cup {Home, NoOne}
  /\ wipeRequested \in BOOLEAN /\ stranded \in BOOLEAN

(* A prompt and the command that waits at it go together: no answer is taken
   that nobody asked for, and no command waits for a prompt that is gone,
   whatever is typed or locked in between (pending.resolve, shell.ts). *)
PromptAnswered == (asking # "no") <=> (flow.at = "prompt")

(* A typed line goes where its prompt says, or nowhere: the contact or group
   it names is the one on screen, and on the home prompt there is none - also
   for the prompt that comes back after a question.  /remove all run from a
   group is set apart (stranded): it shows home and keeps the group. *)
ShownPrompt == IF asking = "no" THEN prompt ELSE savedPrompt
LineGoesWherePromptSays ==
  \/ active = NoOne /\ activeGroup = NoOne
  \/ active = NoOne /\ activeGroup = ShownPrompt
  \/ activeGroup = NoOne /\ active # NoOne /\ active[2] = ShownPrompt
PromptNamesFocus == stranded \/ LineGoesWherePromptSays

(* An unlocked store with nothing in flight is always about to be locked:
   however a command ends, the idle timer runs (run, touchAutoLock). *)
IdleIsTimed == store = "unlocked" /\ flow = Idle => timer = "armed"

-----------------------------------------------------------------------------
(* The strengthening that makes these invariants inductive. *)

(* At most one conversation is on screen, also where the prompt does not say
   which, and none is opened while the store is being purged. *)
OneFocus == active = NoOne \/ activeGroup = NoOne
StrandedInGroup == stranded => activeGroup # NoOne
PurgeShowsNoGroup == flow.cmd \in {"wipe", "purge"} => activeGroup = NoOne

IInv ==
  /\ TypeOK /\ TextStaysPut /\ PromptAnswered /\ PromptNamesFocus /\ IdleIsTimed
  /\ OneFocus /\ StrandedInGroup /\ PurgeShowsNoGroup
=============================================================================
