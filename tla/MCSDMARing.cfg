CONSTANTS
  QueueSize = 8
  PacketSizes = {2, 3, 4, 9}
  Word = 16
  MaxWptr = 22
SPECIFICATION Spec
INVARIANTS UnreadIntact RoomUnlessBusy RingInv
PROPERTIES ImplementsFifo
