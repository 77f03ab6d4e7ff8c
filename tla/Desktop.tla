------------------------------- MODULE Desktop -------------------------------
(***************************************************************************)
(* F.R.I.D.A.Y.'s hands on the Windows desktop: the resolver that turns a  *)
(* description into a control (src/friday/computer/target_resolver.py),    *)
(* the controller that observes, acts, observes again and verifies         *)
(* (computer/controller.py), and the window tools (tools/computer.py).     *)
(*                                                                         *)
(* The user and the programs go on meanwhile: between any two looks at the *)
(* desktop another window may be in front, a control come or go.           *)
(***************************************************************************)
EXTENDS Integers, FiniteSets

CONSTANTS Controls,     \* the controls windows may show
          WindowOf,     \* WindowOf[c]: the window of a control
          NameOf,       \* NameOf[c]: its accessibility name
          RoleOf,       \* RoleOf[c]: its control type
          IdOf,         \* IdOf[c]: its automation id
          Parts,        \* Parts[n]: the names contained in the name or id n
          Incidental,   \* names contained in the words the resolver describes with
          Allowlisted,  \* windows of the applications that may be automated
          NoWindow,     \* no window
          Chars,        \* length of the text that is typed
          MaxChanges,   \* bound: changes of the desktop
          MaxActions    \* bound: actions and resolutions

Windows == {WindowOf[c] : c \in Controls}
Names == {NameOf[c] : c \in Controls}
Ids == {IdOf[c] : c \in Controls}
Roles == {RoleOf[c] : c \in Controls}

DesktopAssumption ==
  /\ NoWindow \notin Windows \union Allowlisted /\ Chars \in Nat \ {0}
  /\ "none" \notin Names \union Ids
  /\ \A n \in Names \union Ids : Parts[n] \subseteq Names
  /\ \A n \in Names : n \in Parts[n]
  /\ \A n \in Names \union Ids : \A m \in Parts[n] : Parts[m] \subseteq Parts[n]
  /\ Incidental \subseteq Names /\ \A n \in Incidental : Parts[n] \subseteq Incidental

VARIABLES
  front,     \* the window in front
  shown,     \* the controls that are shown
  says,      \* the text an expectation names is on the screen
  ink,       \* windows that have got characters of ours
  resolving, \* the resolution in progress: [step, text, window, again]
  target,    \* the last ResolvedTarget
  origin,    \* the first one, of which the target is a re-resolution
  act,       \* the action in progress
  result,    \* the last ActionResult, with what it hit, whether the two screens
             \* differ, and whether nobody else touched the desktop meanwhile
  window,    \* the window tool in progress: [step, title, touched]
  changes, actions

desktop == <<front, shown, says, ink>>
resolution == <<resolving, target, origin>>
vars == <<desktop, resolution, act, result, window, changes, actions>>

\* What the resolver compares of a text: the text itself, where it may be a name or
\* an id, and the names and roles that occur in it.
Phrase(exact, names, roles) == [exact |-> exact, names |-> names, roles |-> roles]

\* The text of a request: a name, an id, or a name and a role.
Texts ==
  {Phrase(n, Parts[n], {}) : n \in Names \union Ids}
    \union {Phrase("none", Parts[n], {r}) : n \in Names, r \in Roles}

\* The sentence that describes a target quotes a text and adds words of its own:
\* "Exact match accessibility label 'Save' on Button", "Matched Automation ID 'x'".
Sentence(names, roles) == Phrase("none", names \union Incidental, roles)

NoText == Phrase("none", {}, {})
\* The methods that find a control, and those whose target is an element, real or made.
Found == {"id", "label", "role_label"}
Elements == Found \union {"visual", "default"}

NoTarget == [method |-> "none", name |-> "none", text |-> NoText, window |-> NoWindow,
             sure |-> FALSE, safe |-> FALSE]
Quiet == [step |-> "idle", text |-> NoText, window |-> NoWindow, again |-> FALSE]
NoScreen == [front |-> NoWindow, shown |-> {}, says |-> FALSE, ink |-> FALSE]
NoAct == [step |-> "idle", kind |-> "none", name |-> "none", expect |-> "none",
          before |-> NoScreen, control |-> {}, left |-> 0, success |-> FALSE,
          hit |-> {}, alone |-> TRUE]
NoResult == [success |-> FALSE, verified |-> FALSE, moved |-> FALSE, expect |-> "none",
             name |-> "none", hit |-> {}, alone |-> TRUE]
Screen == [front |-> front, shown |-> shown, says |-> says, ink |-> front \in ink]

Init ==
  /\ front \in Windows /\ shown = Controls /\ says = FALSE
  /\ ink = {}
  /\ resolving = Quiet /\ target = NoTarget /\ origin = NoTarget
  /\ act = NoAct
  /\ result = NoResult
  /\ window = [step |-> "idle", title |-> NoWindow, touched |-> {}]
  /\ changes = 0 /\ actions = 0

Free == resolving.step = "idle" /\ act.step = "idle" /\ window.step = "idle"

\* A new request; the caller has taken the result of the last one.
Asked ==
  /\ Free /\ actions < MaxActions
  /\ actions' = actions + 1 /\ result' = NoResult

(***************************************************************************)
(* AccessibilityProvider.                                                  *)
(***************************************************************************)

\* find_allowlisted_window: the one in front, or else the first other one.
AllowlistedWindows ==
  IF front \in Allowlisted THEN {front}
  ELSE LET open == Allowlisted \intersect {WindowOf[c] : c \in shown}
       IN  IF open = {} THEN {NoWindow} ELSE open

ControlsOf(w) == {c \in shown : WindowOf[c] = w}

\* find_element_by_label: the name, or else a name that contains it.
ByLabel(w, name) ==
  LET exact == {c \in ControlsOf(w) : NameOf[c] = name}
  IN  IF exact # {} THEN exact ELSE {c \in ControlsOf(w) : name \in Parts[NameOf[c]]}

(***************************************************************************)
(* TargetResolver.                                                         *)
(***************************************************************************)

Target(method, name, text, sure, safe) ==
  [method |-> method, name |-> name, text |-> text, window |-> resolving.window,
   sure |-> sure, safe |-> safe]

\* A control, and what its description says of it: its name and role, or its id only.
Of(c, method, sure, safe) ==
  Target(method, NameOf[c], Sentence(Parts[NameOf[c]], {RoleOf[c]}), sure, safe)
OfId(c) == Target("id", NameOf[c], Sentence(Parts[IdOf[c]], {}), TRUE, TRUE)

\* resolve notes the window first, for the stamp of the target.
Stamps(text) ==
  /\ Asked
  /\ \E w \in AllowlistedWindows :
       resolving' = [step |-> "looks", text |-> text, window |-> w, again |-> FALSE]
  /\ UNCHANGED <<desktop, target, origin, act, window, changes>>

\* Coordinates in the text and a browser context are resolved without a look.
ResolvesDirectly ==
  /\ Asked
  /\ \E method \in {"coordinates", "browser"} :
       target' = [NoTarget EXCEPT !.method = method, !.safe = TRUE, !.sure = (method = "browser")]
  /\ origin' = NoTarget
  /\ UNCHANGED <<desktop, resolving, act, window, changes>>

\* The structural matches of the text in a window, best priority first: automation
\* id, exact name, part of a name, role and name, role.  The first of the tree is taken.
Structural(w, text) ==
  LET els == ControlsOf(w)
      id == {c \in els : IdOf[c] = text.exact}
      exact == {c \in els : NameOf[c] = text.exact}
      part == {c \in els : text.exact \in Parts[NameOf[c]]}
      role == {c \in els : RoleOf[c] \in text.roles}
      both == {c \in role : NameOf[c] \in text.names}
  IN  CASE id # {} -> {OfId(c) : c \in id}
        [] id = {} /\ exact \union part # {} ->
             {Of(c, "label", TRUE, TRUE) : c \in IF exact # {} THEN exact ELSE part}
        [] id = {} /\ exact \union part = {} /\ both # {} ->
             {Of(c, "role_label", TRUE, TRUE) : c \in both}
        [] OTHER -> {Of(c, "role_label", FALSE, FALSE) : c \in role}

\* Without one: the box the caller's context names, the text read on the screen, the
\* vision model's word for it, or a target that is unresolved.
Fallbacks(text) ==
  LET quoted == Sentence(text.names, text.roles)
      read == Sentence(text.names, text.roles \union ({"Text"} \intersect Roles))
  IN  {Target("place", "none", quoted, sure, sure) : sure \in BOOLEAN}
        \union {Target("visual", "none", read, TRUE, TRUE), Target("visual", "none", quoted, FALSE, FALSE),
                 Target("default", "none", quoted, FALSE, FALSE)}

\* Mutant: a re-resolution that is not sure of its target keeps it.
ResolvesUnsure ==
  /\ resolving.step = "looks"
  /\ \E w \in AllowlistedWindows :
       LET found == Structural(w, resolving.text)
       IN  \E t \in IF found # {} THEN found ELSE Fallbacks(resolving.text) :
             /\ target' = t
             /\ origin' = IF resolving.again THEN origin ELSE t
  /\ resolving' = Quiet
  /\ UNCHANGED <<desktop, act, result, window, changes, actions>>

\* The window is looked for again, and may be another one than was stamped.  A
\* re-resolution that is not of medium confidence is not given to the caller.
Resolves ==
  /\ resolving.step = "looks"
  /\ \E w \in AllowlistedWindows :
       LET found == Structural(w, resolving.text)
       IN  \E t \in IF found # {} THEN found ELSE Fallbacks(resolving.text) :
             /\ target' = IF resolving.again /\ ~t.sure THEN NoTarget ELSE t
             /\ origin' = IF resolving.again THEN origin ELSE t
  /\ resolving' = Quiet
  /\ UNCHANGED <<desktop, act, result, window, changes, actions>>

\* re_resolve_after_ui_change looks for the description of the previous target when
\* that is an element, and not for the text that was asked for; a description that
\* the caller gives is a resolution like the first.
ReResolves ==
  /\ Asked
  /\ target.method \in Elements
  /\ \E w \in AllowlistedWindows :
       resolving' = [step |-> "looks", window |-> w, again |-> TRUE, text |-> target.text]
  /\ UNCHANGED <<desktop, target, origin, act, window, changes>>

(***************************************************************************)
(* WindowsComputerController.                                              *)
(***************************************************************************)

\* _execute_and_verify observes first.
Observes(kind, name, expect) ==
  /\ Asked
  /\ act' = [NoAct EXCEPT !.step = "acts", !.kind = kind, !.name = name, !.expect = expect,
                          !.before = Screen, !.left = IF kind = "type" THEN Chars ELSE 0]
  /\ UNCHANGED <<desktop, resolution, window, changes>>

\* A label is looked for; without one, or when no control has it, a click goes
\* to the coordinates, if there are any, and a text to whatever is in front.
FindsLabel ==
  /\ act.step = "acts" /\ act.kind \in {"click", "type"}
  /\ \E w \in AllowlistedWindows :
       LET found == IF act.name = "none" THEN {} ELSE ByLabel(w, act.name)
       IN  \/ /\ found # {}
              /\ \E c \in found : act' = [act EXCEPT !.step = "found", !.control = {c}]
           \/ /\ found = {}
              /\ act' = [act EXCEPT !.step = IF act.kind = "type" THEN "types" ELSE "aims"]
  /\ UNCHANGED <<desktop, resolution, result, window, changes, actions>>

\* Whatever is hit may change what is shown, or bring another window in front.
Reacts(hit) ==
  \/ UNCHANGED <<shown, says, front>>
  \/ /\ hit # {} /\ shown' = shown \ hit /\ UNCHANGED <<says, front>>
  \/ /\ hit # {} /\ front' \in Windows /\ UNCHANGED <<shown, says>>

\* click_element: the control, if it is still there and takes the click.  If neither
\* click_input nor click succeeds, the middle of the rectangle it had is clicked,
\* whatever is there now, and such an act is not alone; that fails too without one.
ClicksElement ==
  /\ act.step = "found" /\ act.kind = "click"
  /\ \/ /\ act.control \subseteq shown /\ Reacts(act.control)
        /\ act' = [act EXCEPT !.step = "after", !.success = TRUE, !.hit = act.control]
     \/ \E hit \in {{}} \union {{c} : c \in shown} :
          /\ Reacts(hit)
          /\ act' = [act EXCEPT !.step = "after", !.success = TRUE, !.hit = hit, !.alone = FALSE]
     \/ /\ act' = [act EXCEPT !.step = "aims"]
        /\ UNCHANGED <<shown, says, front>>
  /\ UNCHANGED <<ink, resolution, result, window, changes, actions>>

\* Coordinates, of a click, a double click, a drag, or no coordinates at all.
ClicksCoordinates(given) ==
  /\ act.step = "aims"
  /\ IF given THEN Reacts(shown) ELSE UNCHANGED <<shown, says, front>>
  /\ act' = [act EXCEPT !.step = "after", !.success = given, !.name = "none"]
  /\ UNCHANGED <<ink, resolution, result, window, changes, actions>>

\* type_into_element focuses the control and types; when it has gone, or does not
\* take all of it, the text is typed into whatever is in front.
TypesIntoElement ==
  /\ act.step = "found" /\ act.kind = "type"
  /\ \/ /\ act.control \subseteq shown
        /\ front' \in {WindowOf[c] : c \in act.control}
        /\ ink' = ink \union {front'}
        /\ act' = [act EXCEPT !.step = "after", !.success = TRUE, !.hit = act.control]
     \/ /\ front' \in {front} \union {WindowOf[c] : c \in act.control \intersect shown}
        /\ ink' \in {ink, ink \union {front'}}
        /\ act' = [act EXCEPT !.step = "types"]
  /\ UNCHANGED <<shown, says, resolution, result, window, changes, actions>>

\* keyboard.type_text: one character after the other to the window in front.
TypesCharacter ==
  /\ act.step = "types"
  /\ act' = IF act.left = 1 THEN [act EXCEPT !.step = "after", !.success = TRUE, !.name = "none"]
                             ELSE [act EXCEPT !.left = @ - 1]
  /\ ink' = ink \union {front}
  /\ UNCHANGED <<front, shown, says, resolution, result, window, changes, actions>>

\* press and scroll: errors are an answer.
Presses(ok) ==
  /\ act.step = "acts" /\ act.kind = "press"
  /\ IF ok THEN Reacts(shown) ELSE UNCHANGED <<shown, says, front>>
  /\ act' = [act EXCEPT !.step = "after", !.success = ok]
  /\ UNCHANGED <<ink, resolution, result, window, changes, actions>>

\* verify_action: nothing expected is verified; a window that is expected needs
\* another one in front, a text has to be read on the screen; anything may be
\* met by a screen that looks different (a small change does not).
VerifyAction(before, after, expect, differs) ==
  \/ expect = "none"
  \/ expect = "window" /\ before.front # after.front
  \/ expect = "text" /\ after.says
  \/ differs /\ before # after

Verifies(differs) ==
  /\ act.step = "after"
  /\ result' = [success |-> act.success, moved |-> act.before # Screen, expect |-> act.expect,
                name |-> act.name, hit |-> act.hit, alone |-> act.alone,
                verified |-> VerifyAction(act.before, Screen, act.expect, differs)]
  /\ act' = NoAct
  /\ UNCHANGED <<desktop, resolution, window, changes, actions>>

(***************************************************************************)
(* Window tools and the world.                                             *)
(***************************************************************************)

\* _control_window takes the name it will report from the window in front...
ReadsTitle ==
  /\ Asked
  /\ window' = [step |-> "reads", title |-> front, touched |-> {}]
  /\ UNCHANGED <<desktop, resolution, act, changes>>

\* ... and the manager maximizes, minimizes, restores or closes the one that is
\* in front then.
ControlsWindow ==
  /\ window.step = "reads"
  /\ window' = [window EXCEPT !.step = "idle", !.touched = {front} \ {NoWindow}]
  /\ \/ UNCHANGED <<front, shown>>
     \/ front # NoWindow /\ front' \in Windows /\ UNCHANGED shown
     \/ front # NoWindow /\ front' \in Windows /\ shown' = {c \in shown : WindowOf[c] # front}
  /\ UNCHANGED <<says, ink, resolution, act, result, changes, actions>>

\* The mouse tools act wherever the pointer or the coordinates are, unobserved.
UsesMouse ==
  /\ Asked
  /\ Reacts(shown)
  /\ UNCHANGED <<ink, resolution, act, window, changes>>

\* _minimize_all_windows: every window that shows, but F.R.I.D.A.Y.'s own.
MinimizesAll ==
  /\ Asked
  /\ window' = [window EXCEPT !.title = NoWindow, !.touched = {WindowOf[c] : c \in shown}]
  /\ front' = NoWindow
  /\ UNCHANGED <<shown, says, ink, resolution, act, changes>>

\* Somebody else; an action in progress is not alone any more.
WorldChanges ==
  /\ changes < MaxChanges /\ changes' = changes + 1
  /\ \/ front' \in Windows \ {front} /\ UNCHANGED <<shown, says>>
     \/ \E c \in Controls : shown' = (shown \ {c}) \union ({c} \ shown) /\ UNCHANGED <<front, says>>
     \/ says' = ~says /\ UNCHANGED <<front, shown>>
  /\ act' = IF act.step = "idle" THEN act ELSE [act EXCEPT !.alone = FALSE]
  /\ UNCHANGED <<ink, resolution, result, window, actions>>

Next ==
  \/ \E text \in Texts : Stamps(text)
  \/ ResolvesDirectly \/ Resolves \/ ReResolves
  \/ \E expect \in {"none", "window", "text", "other"} :
       \/ \E name \in Names \union {"none"}, kind \in {"click", "type"} : Observes(kind, name, expect)
       \/ Observes("press", "none", expect)
  \/ FindsLabel \/ ClicksElement \/ TypesIntoElement \/ TypesCharacter
  \/ \E b \in BOOLEAN : ClicksCoordinates(b) \/ Presses(b) \/ Verifies(b)
  \/ ReadsTitle \/ ControlsWindow \/ UsesMouse \/ MinimizesAll
  \/ WorldChanges

Spec == Init /\ [][Next]_vars

(***************************************************************************)
(* Properties.                                                             *)
(***************************************************************************)

\* Every variable keeps its type (TargetResolver, the controller, the tools).
TypeOK ==
  /\ front \in Windows \union {NoWindow} /\ shown \subseteq Controls /\ says \in BOOLEAN
  /\ ink \subseteq Windows \union {NoWindow}
  /\ resolving.text.exact \in Names \union Ids \union {"none"} /\ resolving.text.names \subseteq Names
  /\ resolving.text.roles \subseteq Roles /\ resolving.again \in BOOLEAN
  /\ target.window \in Windows \union {NoWindow}
  /\ {target.name, origin.name} \subseteq Names \union {"none"}
  /\ {target.method, origin.method}
       \subseteq {"none", "id", "label", "role_label", "place", "visual", "default", "coordinates", "browser"}
  /\ act.step \in {"idle", "acts", "found", "aims", "types", "after"}
  /\ act.left \in 0 .. Chars /\ act.hit \subseteq Controls
  /\ window.step \in {"idle", "reads"} /\ window.touched \subseteq Windows \union {NoWindow}

\* However often a target was resolved again after a change of the screen, a control
\* it names is the first one's namesake, or its name occurs in the first one's
\* description; it is never one that only has the same role.  Nothing better holds:
\* the resolver looks for the description, so a control named like one of its words
\* may be taken, and one that was found by its id is not looked for by its name
\* (resolve and re_resolve_after_ui_change).
StillTheNamed ==
  target.method \in Found => target.name = origin.name \/ target.name \in origin.text.names

\* A click by label that succeeds while nobody else touches the desktop, and that the
\* control takes, has hit a control of an allowlisted application whose name contains
\* the label (click, find_element_by_label, click_element).
ClickHitsTheNamed ==
  result.success /\ result.alone /\ result.name # "none" /\ result.hit # {} =>
    \A c \in result.hit : result.name \in Parts[NameOf[c]] /\ WindowOf[c] \in Allowlisted

\* F.R.I.D.A.Y. acts on what was named and on nothing else (TargetResolver, click).
ActsOnTheNamed == StillTheNamed /\ ClickHitsTheNamed

\* What verify_action says it does: "Verify that an action produced the expected
\* change."  What is verified against an expectation has changed the screen.
VerifiedIsChange == result.verified /\ result.expect # "none" => result.moved

\* What keeps the named: no description says more than the first one's, and a control
\* that was found stays while nobody else touches the desktop.
Screens == [front : Windows \union {NoWindow}, shown : SUBSET Controls, says : BOOLEAN, ink : BOOLEAN]
Acts == [step : {"idle", "acts", "found", "aims", "types", "after"},
         kind : {"none", "click", "type", "press"}, name : Names \union {"none"},
         expect : {"none", "window", "text", "other"}, before : Screens, control : SUBSET Controls,
         left : Int, success : BOOLEAN, hit : SUBSET Controls, alone : BOOLEAN]
HasName(name, S) == \A c \in S : name \in Parts[NameOf[c]] /\ WindowOf[c] \in Allowlisted
\* What is contained in a name that occurs in the text occurs in it.
Closed(text) ==
  text.names \subseteq Names /\ \A n \in text.names : Parts[n] \subseteq text.names
ResolutionInv ==
  /\ resolving.step = "looks" => Closed(resolving.text)
  /\ resolving.step = "looks" /\ resolving.again =>
       resolving.text = target.text /\ target.method \in Elements
  /\ target.method # "none" =>
       /\ target.text.exact = "none" /\ Closed(target.text)
       /\ target.text.names \subseteq origin.text.names
  /\ target.method \in Elements => Incidental \subseteq target.text.names
  /\ StillTheNamed
ActInv ==
  /\ front \in Windows \union {NoWindow} /\ shown \subseteq Controls /\ says \in BOOLEAN
  /\ act \in Acts /\ (window.step = "reads" => act.step = "idle")
  /\ act.step = "found" => act.control # {} /\ HasName(act.name, act.control)
  /\ act.step = "found" /\ act.alone => act.control \subseteq shown
  /\ act.step # "after" => act.hit = {}
  /\ act.alone /\ act.success /\ act.name # "none" => HasName(act.name, act.hit)
NamedInv == ResolutionInv /\ ActInv /\ ClickHitsTheNamed

=============================================================================
