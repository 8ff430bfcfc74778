\* Two combinations of two handshakes, of which the network spoils up to
\* two: one is skipped, two in the same combination end it. One signal, which
\* may become one KeyboardInterrupt. Fallible has the two settings whose save
\* is guarded by || true; their restoring writes stand for those of the others.
SPECIFICATION Spec
CONSTANTS
    Refusable = {"irqs"}
    Fallible = {"irqconf", "irqs"}
    MaxSignals = 1
    Combos = {1, 2}
    Count = 2
    Emulated = TRUE
    MaxSpoilt = 2
INVARIANTS
    TypeOK
    SavedIsRestored
    MeasuredAsConfigured
    EmulationRemoved
PROPERTIES
    Terminates
