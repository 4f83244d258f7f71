SPECIFICATION Spec
CONSTANTS
  file = file
  layerObject = layerObject
  configObject = configObject
  image = image
  layer = layer
  config = config
  p1 = p1
  p2 = p2
  None = None
  Proc <- MCProc
  Object <- MCObject
  Stream <- MCStream
  StreamRef = {n1}
  Image <- MCImage
  ImageRef = {m1}
  ObjectOf <- MCObjectOf
  DataRefs <- MCDataRefs
  NamedRefs <- MCNamedRefs
  ImageObjects <- MCImageObjects
  RootSets <- MCRootSets
  Faults <- AllFaults
SYMMETRY Symmetry
PROPERTIES
  SweepSparesRoots
  NamesNeverLost
