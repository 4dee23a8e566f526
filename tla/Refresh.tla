--------------------------------- MODULE Refresh ---------------------------------
(***************************************************************************)
(* The refresh rates: the service that sets the lowest and the highest     *)
(* rate for the application in front, and gives the user's rates back for  *)
(* an application that is not listed.                                      *)
(*                                                                         *)
(* The service hears of the front on a thread of the binder; the screen    *)
(* and the orientation are heard of on the main thread.  A listed          *)
(* application is one of standard, extreme or land; the rate of a land     *)
(* application follows the orientation, by a listener that stays when the  *)
(* application has gone.                                                   *)
(***************************************************************************)
EXTENDS Profiles

CONSTANTS
  Apps,        \* the applications on the page: names
  Page,        \* the name of the settings, which is not on the page
  Rates,       \* the lowest and the highest rate a user may set
  TurnsLate,   \* the orientation changes when a land application has gone, or is heard of late
  MayDie,      \* the process is killed while a listed application is in front
  MaxText      \* bound: words in the texts

VARIABLES
  front, landscape, \* the application in front, and the orientation
  changed,          \* the listener is still to be told of the front
  texts,            \* the stored preference
  rate,             \* the system's rates
  default,          \* defaultMinRate and defaultMaxRate
  isAppInList, mPreviousApp, isLandscape,
  orientation,      \* the orientation listener is enabled
  doing,            \* what the task stack listener does, and for which application
  user,             \* the rates the user wants
  told              \* the service was told of the front since it started

pageVars == <<texts, user>>
rateVars == <<rate, default, isAppInList, isLandscape, orientation>>
refreshVars ==
  <<front, landscape, changed, pageVars, rateVars, mPreviousApp, doing, told>>

Modes == <<"standard", "extreme", "land">>
Unlisted == 0
Rate(min, max) == [min |-> min, max |-> max]
Fixed == <<60, 120>>
Waiting == [at |-> "idle", app |-> <<>>, state |-> Unlisted]
State(app) == StateForPackage(texts, app, Unlisted)
Turned == IF landscape THEN 60 ELSE 120

RefreshInit ==
  /\ front = Page /\ landscape = FALSE /\ changed = TRUE
  /\ texts = [m \in DOMAIN Modes |-> <<>>]
  /\ user \in Rates /\ rate = user /\ default = Rate(0, 0)
  /\ isAppInList = FALSE /\ mPreviousApp = <<>> /\ isLandscape = FALSE /\ orientation = FALSE
  /\ doing = Waiting /\ told = FALSE

-----------------------------------------------------------------------------
\* The listener: the front and its state, and the user's rates when no listed application ran.
OnTaskStackChanged ==
  /\ changed /\ changed' = FALSE /\ doing = Waiting
  /\ default' = IF isAppInList THEN default ELSE rate
  /\ doing' = [at |-> "compare", app |-> front, state |-> State(front)]
  /\ UNCHANGED <<front, landscape, pageVars, rate, isAppInList, isLandscape, orientation,
                 mPreviousApp, told>>

\* Another application than before: it is taken for not listed, until it is found in a list.
Compare ==
  /\ doing.at = "compare"
  /\ IF doing.app = mPreviousApp
     THEN doing' = [doing EXCEPT !.at = "turn"] /\ UNCHANGED isAppInList
     ELSE doing' = [doing EXCEPT !.at = "set"] /\ isAppInList' = FALSE
  /\ UNCHANGED <<front, landscape, changed, pageVars, rate, default, isLandscape, orientation,
                 mPreviousApp, told>>

\* setRefreshRate: the lowest rate is the user's, also for a listed application.
SetRefreshRate ==
  /\ doing.at = "set" /\ doing' = [doing EXCEPT !.at = "turn"]
  /\ LET state == State(doing.app) IN
     /\ isAppInList' = (state # Unlisted)
     /\ IF state = 3
        THEN orientation' = TRUE /\ UNCHANGED rate
        ELSE /\ rate' = Rate(default.min, IF state = Unlisted THEN default.max ELSE Fixed[state])
             /\ UNCHANGED orientation
  /\ mPreviousApp' = doing.app
  /\ UNCHANGED <<front, landscape, changed, pageVars, default, isLandscape, told>>

\* checkOrientationAndSetRate.
CheckOrientation ==
  /\ doing.at = "turn" /\ doing' = Waiting
  /\ rate' = IF doing.state = 3 /\ isAppInList THEN Rate(Turned, Turned) ELSE rate
  /\ told' = TRUE
  /\ UNCHANGED <<front, landscape, changed, pageVars, default, isAppInList, isLandscape,
                 orientation, mPreviousApp>>

\* The orientation listener, of the last land application, when the orientation is another.
OnOrientationChanged ==
  /\ orientation /\ isLandscape # landscape /\ isLandscape' = landscape
  /\ LET max == IF landscape /\ isAppInList THEN 60 ELSE 120 IN
     rate' = Rate(IF default.min > max THEN max ELSE default.min, max)
  /\ UNCHANGED <<front, landscape, changed, pageVars, default, isAppInList, orientation,
                 mPreviousApp, doing, told>>

\* The receiver of the screen's broadcasts: the next change of the front is handled anew.
OnReceive ==
  /\ mPreviousApp' = <<>>
  /\ UNCHANGED <<front, landscape, changed, pageVars, rateVars, doing, told>>

\* The user selects a mode, or sets the rates, and the service is told of the settings.
Settled == ~changed /\ doing = Waiting
Heard == orientation => isLandscape = landscape
OnItemSelected ==
  /\ front = Page /\ Settled
  /\ FoldLeft(LAMBDA sum, text : sum + Len(text), 0, texts) < MaxText
  /\ \E app \in Apps, mode \in {Unlisted} \cup DOMAIN Modes :
       State(app) # mode /\ texts' = WritePackage(texts, app, mode)
  /\ UNCHANGED <<front, landscape, changed, user, rateVars, mPreviousApp, doing, told>>
SetRates ==
  /\ front = Page /\ Settled
  /\ \E rates \in Rates : user' = rates /\ rate' = rates
  /\ UNCHANGED <<front, landscape, changed, texts, default, isAppInList, isLandscape, orientation,
                 mPreviousApp, doing, told>>

\* Another application comes to the front; the stack of tasks changes otherwise.
BringToFront ==
  /\ \E app \in Apps \cup {Page} : front' = app
  /\ changed' = TRUE
  /\ UNCHANGED <<landscape, pageVars, rateVars, mPreviousApp, doing, told>>
Turn ==
  /\ ~orientation \/ TurnsLate \/ (Settled /\ State(front) = 3)
  /\ landscape' = ~landscape
  /\ UNCHANGED <<front, changed, pageVars, rateVars, mPreviousApp, doing, told>>

\* The process is killed, and the service started again.
Restart ==
  /\ MayDie \/ (Settled /\ ~isAppInList)
  /\ default' = Rate(0, 0) /\ isAppInList' = FALSE /\ mPreviousApp' = <<>>
  /\ isLandscape' = FALSE /\ orientation' = FALSE
  /\ doing' = Waiting /\ changed' = FALSE /\ told' = FALSE
  /\ UNCHANGED <<front, landscape, pageVars, rate>>

RefreshNext ==
  \/ OnOrientationChanged
  \/ /\ Heard \/ TurnsLate
     /\ \/ OnTaskStackChanged \/ Compare \/ SetRefreshRate \/ CheckOrientation \/ OnReceive
        \/ OnItemSelected \/ SetRates \/ BringToFront \/ Turn \/ Restart
RefreshSpec == RefreshInit /\ [][RefreshNext]_refreshVars

-----------------------------------------------------------------------------
\* Types.
RefreshTypeOK ==
  /\ front \in Apps \cup {Page} /\ mPreviousApp \in Apps \cup {Page, <<>>}
  /\ {landscape, changed, isAppInList, isLandscape, orientation, told} \subseteq BOOLEAN
  /\ DOMAIN texts = DOMAIN Modes /\ user \in Rates
  /\ {rate.min, rate.max, default.min, default.max} \subseteq {0, 60, 120}
  /\ doing.at \in {"idle", "compare", "set", "turn"} /\ doing.state \in {Unlisted} \cup DOMAIN Modes

At == Settled /\ told /\ Heard

\* An application that is not listed runs with the rates the user set, whatever ran before it.
RatesGivenBack == At /\ State(front) = Unlisted => rate = user

\* A listed application runs with the highest rate of its list or of its orientation, and the
\* lowest rate is not above it.
RatesOfList ==
  At /\ State(front) # Unlisted =>
    /\ rate.max = IF State(front) = 3 THEN Turned ELSE Fixed[State(front)]
    /\ rate.min <= rate.max

=============================================================================
