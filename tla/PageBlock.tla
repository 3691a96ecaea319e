------------------------------ MODULE PageBlock ------------------------------
(***************************************************************************)
(* Blocking the whole page while the browser client waits for the server:  *)
(* $.blockUI and $.unblockUI (web/www/blockui/jquery.blockUI.js) as         *)
(* AlertService.js calls them, with a message and the default fade times.  *)
(*                                                                         *)
(* The page's block is two facts that must agree: a flag, which makes the   *)
(* handler at the document swallow keys, and layers in the document, which *)
(* lie over the page and catch the mouse.  Layers fade out with a timer,   *)
(* and the page may be blocked again before it has fired.                  *)
(***************************************************************************)
VARIABLES
  isBlocked,   \* pageBlock is set; data('blockUI.isBlocked') always equals it
  layers       \* what the layers in the document do

blockVars == <<isBlocked, layers>>

PageBlockTypeOK ==
  /\ isBlocked \in BOOLEAN
  /\ layers \subseteq {"shown", "fading", "hidden"}

PageBlockInit ==
  /\ isBlocked = FALSE
  /\ layers = {}

\* install: a block already there is removed at once, with every layer; layers
\* that fade out stay.
Block ==
  /\ isBlocked' = TRUE
  /\ layers' = IF isBlocked THEN {"shown"} ELSE layers \cup {"shown"}

\* Mutant: a fade-out under way goes on, without the layers added since.
UnblockOnce ==
  /\ isBlocked' = FALSE
  /\ layers' = IF "fading" \in layers THEN layers ELSE {"fading"}

\* remove: all layers start to fade out; a fade-out under way starts again.
Unblock ==
  /\ isBlocked' = FALSE
  /\ layers' = IF layers = {} THEN {} ELSE {"fading"}

\* Mutant: the end of a fade-out takes every layer there is by then.
FadeDoneAll ==
  /\ "fading" \in layers
  /\ layers' = {}
  /\ UNCHANGED isBlocked

\* The fade-out's end, and reset: if the page has been blocked again meanwhile,
\* the faded layers stay in the document, hidden.
FadeDone ==
  /\ "fading" \in layers
  /\ layers' = (layers \ {"fading"}) \cup IF isBlocked THEN {"hidden"} ELSE {}
  /\ UNCHANGED isBlocked

\* AlertService.alert, and with it error: unblock, then a message that
\* disappears by itself.
Alert == Unblock

-----------------------------------------------------------------------------
\* What a user can reach: keys are let through while the page is not blocked, the
\* mouse while no layer lies over the page.
KeysReach == ~isBlocked
MouseReaches == layers \cap {"shown", "fading"} = {}

\* The two facts agree: the overlay stands exactly while the page is blocked, also
\* when a block falls into the fade-out of the one before.
OverlayAgrees == isBlocked <=> "shown" \in layers
==============================================================================
