--------------------------------- MODULE Thermal ---------------------------------
(***************************************************************************)
(* The thermal profiles: the service that tells the kernel the profile of  *)
(* the application in front, and the page on which the user chooses one    *)
(* for each application.                                                   *)
(*                                                                         *)
(* The service hears of the application in front on a thread of the        *)
(* binder, and of the screen on the main thread; both set the profile,     *)
(* without a lock.  The page runs on the main thread.  The service is      *)
(* sticky: killed, it is started again and knows nothing.                  *)
(***************************************************************************)
EXTENDS Profiles

CONSTANTS
  Apps,          \* the applications on the page: names, with what each is by default
  Page,          \* the name of the settings, which is not on the page
  ModeNames,     \* the modes, in the order of their texts
  Standard,      \* STATE_DEFAULT: the number of the last mode
  DefaultState,  \* getDefaultStateForPackage: a mode for each application
  HastyUser,     \* the page may be used before the listener handled that it is in front
  MaxText,       \* bound: words in the texts of the page's user
  MaxEvents      \* bound: broadcasts under way

VARIABLES
  front, screen,  \* the application in front, and whether the screen is on
  changed,        \* the listener is still to be told of the front
  events,         \* broadcasts of the screen under way
  texts,          \* the stored preference: <<>> before the first use
  mScreenOn, mCurrentApp,
  doing,          \* what each thread does in setThermalProfile
  sconfig,        \* the profile the kernel was told
  chosen,         \* the mode of each application, as the user wants it
  knows, mixed    \* what the service was told since it started; whether its threads overlapped

settingsVars == <<texts, chosen>>
serviceVars == <<mScreenOn, mCurrentApp, doing, sconfig, knows, mixed>>
thermalVars == <<front, screen, changed, events, settingsVars, serviceVars>>

Threads == {"listener", "receiver"}
Idle == [at |-> "idle", mode |-> 0]
Nobody == <<>>
State(app) ==
  StateForPackage(texts, app, IF app \in DOMAIN DefaultState THEN DefaultState[app] ELSE Standard)
NewTexts == [m \in DOMAIN ModeNames |-> <<>>]
Words == FoldLeft(LAMBDA sum, text : sum + Len(text), 0, texts)

ThermalInit ==
  /\ front = Page /\ screen = TRUE /\ changed = TRUE /\ events = <<>>
  /\ texts = <<>> /\ mScreenOn = TRUE /\ mCurrentApp = Nobody
  /\ doing = [t \in Threads |-> Idle] /\ sconfig = Standard
  /\ chosen = DefaultState /\ knows = {"screen"} /\ mixed = FALSE

-----------------------------------------------------------------------------
\* setThermalProfile, on either thread: what the screen and the application are, the mode from
\* the texts, which are written first when there are none, and the kernel's file.
Starting(t) ==
  /\ doing' = [doing EXCEPT ![t] = [Idle EXCEPT !.at = "look"]]
  /\ mixed' = \E other \in Threads \ {t} : doing[other].at # "idle"

Found(t, mode) == doing' = [doing EXCEPT ![t] = [at |-> "write", mode |-> mode]]
Look(t) ==
  /\ doing[t].at = "look"
  /\ IF ~mScreenOn THEN Found(t, Standard)
     ELSE IF texts = <<>> THEN doing' = [doing EXCEPT ![t].at = "fill"]
     ELSE Found(t, State(mCurrentApp))
  /\ UNCHANGED <<front, screen, changed, events, settingsVars, mScreenOn, mCurrentApp, sconfig,
                 knows, mixed>>
Fill(t) ==
  /\ doing[t].at = "fill" /\ texts' = NewTexts
  /\ Found(t, IF mCurrentApp \in Apps THEN DefaultState[mCurrentApp] ELSE Standard)
  /\ UNCHANGED <<front, screen, changed, events, chosen, mScreenOn, mCurrentApp, sconfig, knows,
                 mixed>>
Write(t) ==
  /\ doing[t].at = "write" /\ sconfig' = doing[t].mode /\ doing' = [doing EXCEPT ![t] = Idle]
  /\ UNCHANGED <<front, screen, changed, events, settingsVars, mScreenOn, mCurrentApp, knows, mixed>>

\* The listener asks which application is in front.
OnTaskStackChanged ==
  /\ changed /\ changed' = FALSE /\ doing["listener"] = Idle
  /\ knows' = knows \cup {"front"}
  /\ IF front # mCurrentApp
     THEN mCurrentApp' = front /\ Starting("listener")
     ELSE UNCHANGED <<mCurrentApp, doing, mixed>>
  /\ UNCHANGED <<front, screen, events, settingsVars, mScreenOn, sconfig>>

OnReceive ==
  /\ events # <<>> /\ doing["receiver"] = Idle
  /\ mScreenOn' = Head(events) /\ events' = Tail(events) /\ Starting("receiver")
  /\ knows' = knows \cup {"screen"}
  /\ UNCHANGED <<front, screen, changed, settingsVars, mCurrentApp, sconfig>>

\* The user selects another mode for an application, on the main thread.
OnItemSelected ==
  /\ front = Page /\ doing["receiver"] = Idle
  /\ HastyUser \/ (~changed /\ doing["listener"] = Idle)
  /\ Words < MaxText
  /\ \E app \in Apps, mode \in DOMAIN ModeNames :
       LET now == IF texts = <<>> THEN NewTexts ELSE texts IN
       /\ StateForPackage(now, app, DefaultState[app]) # mode
       /\ texts' = WritePackage(now, app, mode)
       /\ chosen' = [chosen EXCEPT ![app] = mode]
  /\ UNCHANGED <<front, screen, changed, events, serviceVars>>

\* Another application comes to the front; the screen is switched.
BringToFront ==
  /\ \E app \in Apps \cup {Page} : app # front /\ front' = app
  /\ changed' = TRUE
  /\ UNCHANGED <<screen, events, settingsVars, serviceVars>>
Switch ==
  /\ Len(events) < MaxEvents
  /\ screen' = ~screen /\ events' = Append(events, screen')
  /\ UNCHANGED <<front, changed, settingsVars, serviceVars>>

\* The process is killed, and the service started again.
Restart ==
  /\ mScreenOn' = TRUE /\ mCurrentApp' = Nobody /\ doing' = [t \in Threads |-> Idle]
  /\ changed' = FALSE /\ events' = <<>>
  /\ knows' = (IF screen THEN {"screen"} ELSE {}) /\ mixed' = FALSE
  /\ UNCHANGED <<front, screen, settingsVars, sconfig>>

ThermalNext ==
  \/ \E t \in Threads : Look(t) \/ Fill(t) \/ Write(t)
  \/ OnTaskStackChanged \/ OnReceive \/ OnItemSelected \/ BringToFront \/ Switch \/ Restart
ThermalSpec == ThermalInit /\ [][ThermalNext]_thermalVars

-----------------------------------------------------------------------------
\* Types.
ThermalTypeOK ==
  /\ front \in Apps \cup {Page} /\ mCurrentApp \in Apps \cup {Page, Nobody}
  /\ {screen, changed, mScreenOn, mixed} \subseteq BOOLEAN /\ Len(events) <= MaxEvents
  /\ texts # <<>> => DOMAIN texts = DOMAIN ModeNames
  /\ sconfig \in DOMAIN ModeNames /\ chosen \in [Apps -> DOMAIN ModeNames]
  /\ knows \subseteq {"front", "screen"}
  /\ \A t \in Threads : doing[t].at \in {"idle", "look", "fill", "write"}

Quiet == ~changed /\ events = <<>> /\ \A t \in Threads : doing[t] = Idle

\* What the user chose for an application is found, whatever was written for others, when its
\* name and the name of no other end alike.
ChoicesFound ==
  \A app \in Apps :
    Apart(app, Apps) /\ texts # <<>> => State(app) = chosen[app]

\* When nothing is under way, the kernel has the profile of the application in front, or the
\* default when the screen is off, if the service was told of both since it started and its
\* threads did not overlap in its last step: one undisturbed event repairs what they mixed up.
ProfileFollows ==
  Quiet /\ ~mixed /\ knows = {"front", "screen"} =>
    sconfig = IF ~screen THEN Standard
              ELSE IF front \in Apps /\ Apart(front, Apps) THEN chosen[front]
              ELSE State(front)

=============================================================================
