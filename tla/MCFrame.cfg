CONSTANTS
  Zero = Zero
  v1 = v1
  Values <- MCValues
  NodeNumbers <- MCNodeNumbers
  SlotNumbers <- MCSlotNumbers
  BITS_PER_MASK = 1
  MaxNodeTypes = 1
  MaxAttrs = 2
  MaxNodeNum = 2
  MaxSlotNum = 2
  MaxLastIndex = 6
SPECIFICATION Spec
INVARIANT TypeOK
PROPERTY AbstractSpec
