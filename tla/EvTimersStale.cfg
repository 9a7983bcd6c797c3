SPECIFICATION Spec
CONSTANTS
  SlotCount = 2
  ListCount = 1
  BlockSlots = 16
  Fds = {"f"}
  MaxAdds = 3
  MaxChanges = 3
PROPERTIES
  FiresItsOwnEvent
