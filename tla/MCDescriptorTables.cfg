\* Three images, each in a format that is handled or one that is not, two
\* samplers, and up to three pipeline builds anywhere in between.  The program
\* ends with its context, hence no deadlock check.
SPECIFICATION Spec
CONSTANTS
  i1 = i1
  i2 = i2
  i3 = i3
  s1 = s1
  s2 = s2
  Images <- MCImages
  Samplers <- MCSamplers
  DefaultImage = DefaultImage
  DefaultSampler = DefaultSampler
  Null = Null
  Garbage = Garbage
  Formats <- MCFormats
  Handled <- MCHandled
  HalfWord = 16
  MaxBuilds = 3
SYMMETRY MCSymmetry
CHECK_DEADLOCK FALSE
INVARIANTS
  TypeOK
  ListsAreIndexed
  ZeroIsInvalid
  TextureObjectsSample
  SetsAgreeWithTheirPools
  SamplersKeepTheirImage
  NothingLeft
