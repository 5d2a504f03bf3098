CONSTANTS
  Drops <- MCDrops
  Receivers = 2

SPECIFICATION FairSpec

INVARIANT TypeOK
INVARIANT DropGoesToItsReceiver
INVARIANT AcceptedIsKept
INVARIANT StoppedIsQuiet

PROPERTY CallsReturn
