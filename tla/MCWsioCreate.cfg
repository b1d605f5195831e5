CONSTANTS
    h1 = h1
    h2 = h2
    Handles <- MCHandles
SPECIFICATION RSpec
INVARIANT FreedExactlyOnce
