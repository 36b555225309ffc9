\* Three files with at most two use declarations each: chains, diamonds, a file
\* that uses itself, cycles with and without the root.  The stack never holds
\* more than four activations (the root twice, the others once), so four do not
\* bind.
CONSTANTS
  Files    = {root, a, b}
  Root     = root
  MaxUses  = 2
  MaxStack = 4
SPECIFICATION Spec
INVARIANTS TypeOK Complete UsedBefore
PROPERTIES ReadOnce Termination
