SPECIFICATION Spec
CONSTANTS
    Width = 32
    Height = 32
    Images <- MCImages
    MaxImages = 2
INVARIANT ReadsInside
INVARIANT PictureOnCanvas
INVARIANT FacesOfEachImage
INVARIANT FacesWhereSeen
