SPECIFICATION LedSpec
CONSTANTS
  Procs = {p1, p2, p3}
  Leds = {l1, l2}
  Ways = {"reg", "gpio"}
INVARIANTS LedsShowTheLastCommand
