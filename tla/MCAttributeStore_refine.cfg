CONSTANTS
  Zero = Zero
  v1 = v1
  NodeIds <- MCNodeIds
  AttrIds <- MCAttrIds
  Values <- MCValues
  SetupSizes <- MCSetupSizes
  MaxNodeNum = 2
  MaxSlotNum = 2
  BITS_PER_MASK = 1
  MaxLastIndex = 4
SPECIFICATION Spec
PROPERTY AbstractSpec
