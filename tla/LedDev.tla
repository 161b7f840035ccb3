-------------------------------- MODULE LedDev --------------------------------
(***************************************************************************)
(* The four LEDs hang on one data register, GPM4DAT, and several drivers   *)
(* can be loaded for them at once:                                         *)
(*   "reg"   src/miscled/led.c, src/ledchar/led.c, src/ledsyscall.c and    *)
(*           src/kernel_code_v1/leds/demo.c read the register, change one  *)
(*           bit and write it back, without a lock;                        *)
(*   "gpio"  src/gpio_led/led.c has gpio_set_value do it, which is atomic. *)
(* So a command can be undone by another one that began before it.         *)
(***************************************************************************)
EXTENDS Integers

CONSTANTS Procs, Leds,
          Ways  \* "reg", "gpio": how programs reach the LEDs

ASSUME LedsAssumption == Leds # {}
ASSUME WaysAssumption == Ways \subseteq {"reg", "gpio"}

Levels == {0, 1}  \* the LED is on while its bit is 0

VARIABLES
  reg,     \* GPM4DAT, of which the bits of the LEDs
  at,      \* "user", "loaded": between ioread8 and iowrite8
  cmd,     \* what a call is to do: [led, level]
  tmp,     \* the register as the call has read it
  asked,   \* history: the level that the last command for each LED wrote
  beside,  \* history: LEDs that others have written since the call read
  doubt    \* history: LEDs whose last command may have been undone

ledVars == <<reg, at, cmd, tmp, asked, beside, doubt>>

AllOff == [l \in Leds |-> 1]
NoCmd == [led |-> CHOOSE l \in Leds : TRUE, level |-> 1]

\* init turns all LEDs off.
LedInit ==
  /\ reg = AllOff
  /\ at = [p \in Procs |-> "user"]
  /\ cmd = [p \in Procs |-> NoCmd] /\ tmp = [p \in Procs |-> AllOff]
  /\ asked = AllOff /\ beside = [p \in Procs |-> {}] /\ doubt = {}

\* Everybody in the middle of a call has the LEDs ls written beside it.
WrittenBeside(ls) ==
  beside' = [q \in Procs |-> IF at'[q] = "loaded" THEN beside[q] \cup ls ELSE {}]

\* The call of p ends, and with it its variables.
Return(p) ==
  /\ at' = [at EXCEPT ![p] = "user"]
  /\ cmd' = [cmd EXCEPT ![p] = NoCmd]
  /\ tmp' = [tmp EXCEPT ![p] = AllOff]

\* ledonoff, led_ctr: tmp = ioread8(gpm4base + GPM4DAT) ...
Load(p, l, v) ==
  /\ "reg" \in Ways
  /\ at[p] = "user"
  /\ at' = [at EXCEPT ![p] = "loaded"]
  /\ cmd' = [cmd EXCEPT ![p] = [led |-> l, level |-> v]]
  /\ tmp' = [tmp EXCEPT ![p] = reg]
  /\ beside' = [beside EXCEPT ![p] = {}]
  /\ UNCHANGED <<reg, asked, doubt>>

\* Operators whose name begins with Bad are slips in what follows them.
\* Here: | is written for |=, and the other LEDs are not kept.
BadStore(p) ==
  LET l == cmd[p].led IN
  /\ at[p] = "loaded"
  /\ reg' = [m \in Leds |-> IF m = l THEN cmd[p].level ELSE 0]
  /\ asked' = [asked EXCEPT ![l] = cmd[p].level]
  /\ doubt' = (doubt \cup beside[p]) \ {l}
  /\ Return(p) /\ WrittenBeside({l})

\* ... and with one bit changed iowrite8(tmp, gpm4base + GPM4DAT): what was
\* written beside the call is written over.
Store(p) ==
  LET l == cmd[p].led IN
  /\ at[p] = "loaded"
  /\ reg' = [tmp[p] EXCEPT ![l] = cmd[p].level]
  /\ asked' = [asked EXCEPT ![l] = cmd[p].level]
  /\ doubt' = (doubt \cup beside[p]) \ {l}
  /\ Return(p) /\ WrittenBeside({l})

\* gpio_set_value reads, changes and writes under the lock of the gpio bank.
SetGpio(p, l, v) ==
  /\ "gpio" \in Ways
  /\ at[p] = "user"
  /\ reg' = [reg EXCEPT ![l] = v]
  /\ asked' = [asked EXCEPT ![l] = v]
  /\ doubt' = doubt \ {l}
  /\ UNCHANGED <<at, cmd, tmp>> /\ WrittenBeside({l})

\* init or exit of another of the drivers: all LEDs off (the same read and
\* write, but no bit of what is read is kept).
TurnAllOff ==
  /\ reg' = AllOff /\ asked' = AllOff
  /\ doubt' = {}
  /\ UNCHANGED <<at, cmd, tmp>> /\ WrittenBeside(Leds)

LedNext ==
  \/ \E p \in Procs :
       \/ \E l \in Leds, v \in Levels : Load(p, l, v) \/ SetGpio(p, l, v)
       \/ Store(p)
  \/ TurnAllOff

LedSpec == LedInit /\ [][LedNext]_ledVars

-----------------------------------------------------------------------------
\* An LED shows what its last command asked for, whatever commands for the
\* other LEDs come between and however they reach the register - unless that
\* command fell between the ioread8 and the iowrite8 of another call
\* (miscled/led.c:31-39).  A LED that is in doubt is right again after its
\* next undisturbed command.
LedsShowTheLastCommand == \A l \in Leds \ doubt : reg[l] = asked[l]

=============================================================================
