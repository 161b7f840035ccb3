------------------------------- MODULE TouchIrq -------------------------------
(***************************************************************************)
(* The FT5206 touch screen: src/laomits/ts.c and src/kernel_code_v1/ts/    *)
(* ts.c.  The chip holds the newest event in its registers and makes a     *)
(* falling edge for each.  The interrupt schedules a work item and then    *)
(* turns itself off, because a transfer over I2C may sleep; the work item  *)
(* receives the registers, reports what they say to the input device and   *)
(* turns the interrupt on again - unless the transfer failed.              *)
(***************************************************************************)
EXTENDS Integers

CONSTANTS Places,  \* where a finger can be
          Kinds    \* the drivers looked at: "laomits", "v1"

ASSUME PlacesAssumption == Places # {}
ASSUME KindsAssumption == Kinds \subseteq {"laomits", "v1"}

Events == {"down", "up", "contact", "none"}  \* regval[3] >> 6: 0, 1, 2, 3

\* What tells whether there is a finger: the others leave BTN_TOUCH alone.
Telling == {"down", "up"}

VARIABLES
  kind,    \* which of the drivers this is
  finger,  \* the finger is on the screen
  chip,    \* the registers of the chip: [event, place]
  edge,    \* a falling edge has been latched and not been served
  off,     \* how often the interrupt has been disabled
  top,     \* do_ft5206_top has scheduled the work item and not yet returned
  queued,  \* the work item is pending
  pc,      \* where do_ft5206_bh is
  regval,  \* the registers it received
  shown,   \* what the input device says: BTN_TOUCH and pressure, ABS_X and ABS_Y
  failed,  \* history: a transfer has failed
  unread,  \* history: the event in the registers has not been received
  missed   \* history: a "down" or "up" was overwritten before it was received

work == <<queued, pc, regval>>
history == <<failed, unread, missed>>
screen == <<finger, chip>>
touchVars == <<kind, screen, edge, off, top, work, shown, history>>

TouchInit ==
  /\ kind \in Kinds
  /\ finger = FALSE /\ chip \in [event : {"up"}, place : Places] /\ edge = FALSE
  /\ off = 0 /\ top = FALSE /\ queued = FALSE /\ pc = "idle" /\ regval = chip
  /\ shown = [btn |-> 0, place |-> chip.place]
  /\ failed = FALSE /\ unread = FALSE /\ missed = FALSE

-----------------------------------------------------------------------------
\* The chip replaces its registers by a new event, read or not.
NewEvent(e, p) ==
  /\ chip' = [event |-> e, place |-> p]
  /\ edge' = TRUE
  /\ unread' = TRUE
  /\ missed' = (e \notin Telling /\ (missed \/ (chip.event \in Telling /\ unread)))
  /\ UNCHANGED <<kind, off, top, work, shown, failed>>

Touch(p) == ~finger /\ finger' = TRUE /\ NewEvent("down", p)
Drag(p) == finger /\ NewEvent("contact", p) /\ UNCHANGED finger
Lift == finger /\ finger' = FALSE /\ NewEvent("up", chip.place)

\* An event of the fourth kind, which the drivers' last branch is for.
Other == NewEvent("none", chip.place) /\ UNCHANGED finger

-----------------------------------------------------------------------------
\* schedule_work (of a pending item it does nothing); an edge that comes while
\* the interrupt is off, or its handler runs, stays latched.
ScheduleWork ==
  /\ edge /\ off = 0 /\ ~top
  /\ edge' = FALSE
  /\ queued' = TRUE
  /\ top' = TRUE
  /\ UNCHANGED <<kind, screen, off, pc, regval, shown, history>>

\* Operators whose name begins with Bad are slips in what follows them.
\* Here: the handler leaves the interrupt on.
BadDisableIrq ==
  /\ top
  /\ top' = FALSE
  /\ UNCHANGED <<kind, screen, edge, off, work, shown, history>>

\* ... and only then disable_irq_nosync; return
DisableIrq ==
  /\ top
  /\ off' = off + 1
  /\ top' = FALSE
  /\ UNCHANGED <<kind, screen, edge, work, shown, history>>

Top == ScheduleWork \/ DisableIrq

\* A worker takes the item, which may be queued again from then on.  The item
\* is queued on the CPU of the interrupt, so not before its handler returns:
\* the order of its two statements relies on this.
WorkStart ==
  /\ queued /\ pc = "idle" /\ ~top
  /\ queued' = FALSE
  /\ pc' = "receive"
  /\ UNCHANGED <<kind, screen, edge, off, top, regval, shown, history>>

\* i2c_master_recv of the 31 registers
Receive ==
  /\ pc = "receive"
  /\ regval' = chip
  /\ pc' = "report"
  /\ unread' = FALSE
  /\ UNCHANGED <<kind, screen, edge, off, top, queued, shown, failed, missed>>

\* The transfer gives less than 31 bytes: return, with the interrupt off.
ReceiveFails ==
  /\ pc = "receive"
  /\ pc' = "idle"
  /\ failed' = TRUE
  /\ UNCHANGED <<kind, screen, edge, off, top, queued, regval, shown, unread, missed>>

\* What the two drivers report of registers r: laomits takes the position
\* from "contact", v1 from "down".
Reported(s, r) ==
  [btn   |-> CASE r.event = "down" -> 1 [] r.event = "up" -> 0 [] OTHER -> s.btn,
   place |-> IF r.event = (IF kind = "v1" THEN "down" ELSE "contact")
             THEN r.place ELSE s.place]

\* input_report_abs, input_report_key and input_sync
ReportTouch ==
  /\ pc = "report"
  /\ shown' = Reported(shown, regval)
  /\ pc' = "enable"
  /\ UNCHANGED <<kind, screen, edge, off, top, queued, regval, history>>

\* The slips: the latched edge is acknowledged as well;
BadAckEnable ==
  /\ pc = "enable"
  /\ off' = off - 1 /\ edge' = FALSE
  /\ pc' = "idle"
  /\ UNCHANGED <<kind, screen, top, queued, regval, shown, history>>

\* enable_irq is forgotten here too.
BadNoEnable ==
  /\ pc = "enable"
  /\ pc' = "idle"
  /\ UNCHANGED <<kind, screen, edge, off, top, queued, regval, shown, history>>

\* enable_irq; a latched edge interrupts again
Enable ==
  /\ pc = "enable"
  /\ off' = off - 1
  /\ pc' = "idle"
  /\ UNCHANGED <<kind, screen, edge, top, queued, regval, shown, history>>

Bottom == WorkStart \/ Receive \/ ReceiveFails \/ ReportTouch \/ Enable

TouchNext ==
  \/ \E p \in Places : Touch(p) \/ Drag(p)
  \/ Lift \/ Other \/ Top \/ Bottom

TouchSpec == TouchInit /\ [][TouchNext]_touchVars

\* Interrupts are taken and the kernel's worker runs; nobody has to touch
\* the screen, and a transfer need not fail.
TouchFairSpec == TouchSpec /\ WF_touchVars(Top) /\ WF_touchVars(Bottom)

-----------------------------------------------------------------------------
\* disable_irq counts: the interrupt must be off exactly once while somebody
\* has still to turn it on - the pending or the running work item - and it
\* is off for ever, once, when a transfer has failed (ts.c:47-49).  The handler
\* schedules the item first, so that until it has returned the interrupt is on
\* although its enabling is owed already (ts.c:29-31).  So no work item runs
\* beside another, and enable_irq is never unbalanced.
Owes == (IF queued THEN 1 ELSE 0) + (IF pc # "idle" THEN 1 ELSE 0) + (IF failed THEN 1 ELSE 0)

OffIsOwed == off = Owes - (IF top THEN 1 ELSE 0) /\ off >= 0 /\ Owes <= 1

\* What the input device should show when the chip says c: whether there is a
\* finger, and where, if c says so.  Only "down" and "up" change BTN_TOUCH
\* (ts.c:53-66): if the last of them was overwritten before it was received
\* the device goes on showing the state before.
Agrees(s, c) ==
  /\ missed \/ (s.btn = 1 <=> finger)
  /\ c.event = (IF kind = "v1" THEN "down" ELSE "contact") => s.place = c.place

\* An event that comes while the interrupt is off is not lost: whenever the
\* interrupt is on, not handled, and no edge is latched, the device shows the
\* chip's newest event, however many came during the transfer.
QuietScreenIsCurrent == off = 0 /\ ~top /\ ~edge => Agrees(shown, chip)

\* A finger that is lifted is reported as lifted, unless it comes back
\* first, a transfer fails, or the chip overwrites its "up" unread.
LiftIsReported == ~finger ~> (shown.btn = 0 \/ finger \/ failed \/ missed)

=============================================================================
