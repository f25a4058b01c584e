----------------------- MODULE ScrfdDetector_proofs -----------------------
(***************************************************************************)
(* For a square input, of any size the configuration accepts, the stride   *)
(* worked out from an output's size is the one of its level, so decoding   *)
(* stays inside the outputs.  For any input and any image, letterbox puts  *)
(* the picture on the canvas.                                              *)
(***************************************************************************)
EXTENDS ScrfdDetector, TLAPS

LEMMA CancelLe ==
    ASSUME NEW a \in Int, NEW b \in Int, NEW c \in Nat \ {0}, a * c <= b * c
    PROVE  a <= b
<1>1. SUFFICES ASSUME b < a PROVE FALSE
  OBVIOUS
<1>2. (a - b) * c > 0
  BY <1>1
<1>3. (a - b) * c = a * c - b * c
  OBVIOUS
<1> QED BY <1>2, <1>3

LEMMA SquareMonotone ==
    ASSUME NEW a \in Nat, NEW b \in Nat, Square(a) <= Square(b)
    PROVE  a <= b
<1>1. SUFFICES ASSUME b < a PROVE FALSE
  OBVIOUS
<1>2. b * b <= b * a /\ b * a < a * a
  BY <1>1
<1> QED BY <1>2 DEF Square

(* A width that is q cells of the level across resolves to the level.      *)
LEMMA StrideOfLevel ==
    ASSUME NEW q \in Nat \ {0}, NEW l \in Nat \ {0}, NEW s \in Nat \ {0},
           Width = q * l, IsStride(s, q * q * 2)
    PROVE  s = l
<1> DEFINE c == q * q * 2
<1>1. c \in Nat \ {0}
  BY SMT
<1>2. 4 * AnchorsPerLocation * Square(Width) = Square(2 * l) * c
  BY DEF Square, AnchorsPerLocation
<1>3. Square(2 * s - 1) * c <= Square(2 * l) * c
      /\ Square(2 * l) * c < Square(2 * s + 1) * c
  BY <1>2 DEF IsStride
<1> HIDE DEF c
<1>4. Square(2 * s - 1) \in Int /\ Square(2 * l) \in Int /\ Square(2 * s + 1) \in Int
  BY DEF Square
<1>5. Square(2 * s - 1) <= Square(2 * l)
  BY <1>1, <1>3, <1>4, CancelLe
<1>6. Square(2 * l) <= Square(2 * s + 1)
  <2>1. Square(2 * l) * c <= Square(2 * s + 1) * c
    <3>1. \A u, v \in Int : u < v => u <= v
      OBVIOUS
    <3>2. Square(2 * l) * c \in Int /\ Square(2 * s + 1) * c \in Int
      BY <1>1, <1>4
    <3> QED BY <1>3, <3>1, <3>2
  <2> QED BY <2>1, <1>1, <1>4, CancelLe
<1>7. 2 * s - 1 <= 2 * l /\ 2 * l <= 2 * s + 1
  <2>1. 2 * s - 1 \in Nat /\ 2 * l \in Nat /\ 2 * s + 1 \in Nat
    OBVIOUS
  <2> QED BY <2>1, <1>5, <1>6, SquareMonotone
<1> QED BY <1>7

(* The levels 8, 16 and 32 divide a width that is a multiple of 32.        *)
LEMMA LevelCells ==
    ASSUME Width = Height, NEW l \in Levels
    PROVE  /\ l \in Nat \ {0}
           /\ Width \div l \in Nat \ {0}
           /\ Width = (Width \div l) * l
           /\ Rows(l) = (Width \div l) * (Width \div l) * 2
           /\ Rows(l) \in Nat
<1>1. Width \in Nat \ {0} /\ Width % 32 = 0
  BY DetectorAssumption DEF DetectorAssumption
<1>2. /\ l \in Nat \ {0} /\ Width = (Width \div l) * l
      /\ Width \div l \in Nat \ {0}
  <2>1. CASE l = 8
    BY <2>1, <1>1
  <2>2. CASE l = 16
    BY <2>2, <1>1
  <2>3. CASE l = 32
    BY <2>3, <1>1
  <2> QED BY <2>1, <2>2, <2>3 DEF Levels
<1>3. Rows(l) = (Width \div l) * (Width \div l) * 2
  BY DEF Rows, AnchorsPerLocation
<1> QED BY <1>2, <1>3

LEMMA SquareResolves ==
    ASSUME Width = Height, NEW l \in Levels, NEW s \in StrideOf(Rows(l))
    PROVE  s = l
<1>1. Width \in Nat \ {0} /\ Width % 32 = 0
  BY DetectorAssumption DEF DetectorAssumption
<1>2. s \in Nat \ {0} /\ IsStride(s, Rows(l))
  BY <1>1 DEF StrideOf, Strides
<1>3. /\ l \in Nat \ {0} /\ Width \div l \in Nat \ {0}
      /\ Width = (Width \div l) * l
      /\ Rows(l) = (Width \div l) * (Width \div l) * 2
  BY LevelCells
<1> QED BY <1>2, <1>3, StrideOfLevel

-----------------------------------------------------------------------------
LEMMA LevelResolves ==
    ASSUME Width = Height, NEW l \in Levels
    PROVE  StrideOf(Rows(l)) = {l}
<1> DEFINE q == Width \div l
           c == q * q * 2
<1>1. /\ l \in Nat \ {0} /\ q \in Nat \ {0} /\ Width = q * l
      /\ Rows(l) = c
  BY LevelCells
<1>2. l \in Strides
  <2>1. l <= q * l
    BY <1>1
  <2> QED BY <1>1, <2>1 DEF Strides
<1>3. IsStride(l, c)
  <2>1. c \in Nat \ {0}
    BY <1>1
  <2>2. 4 * AnchorsPerLocation * Square(Width) = (2 * l) * (2 * l) * c
    BY <1>1 DEF Square, AnchorsPerLocation
  <2>3. /\ Square(2 * l - 1) \in Nat /\ Square(2 * l + 1) \in Nat
        /\ Square(2 * l - 1) <= (2 * l) * (2 * l)
        /\ (2 * l) * (2 * l) + 1 <= Square(2 * l + 1)
    BY <1>1 DEF Square
  <2>4. (2 * l) * (2 * l) \in Nat
    BY <1>1
  <2> HIDE DEF c, q
  <2>5. \A u, v, w \in Nat : u <= v => u * w <= v * w
    OBVIOUS
  <2>6. Square(2 * l - 1) * c <= (2 * l) * (2 * l) * c
    BY <2>1, <2>3, <2>4, <2>5
  <2>7. ((2 * l) * (2 * l) + 1) * c <= Square(2 * l + 1) * c
    BY <2>1, <2>3, <2>4, <2>5
  <2>8. (2 * l) * (2 * l) * c < ((2 * l) * (2 * l) + 1) * c
    BY <2>1, <2>4
  <2>9. /\ (2 * l) * (2 * l) * c \in Nat
        /\ ((2 * l) * (2 * l) + 1) * c \in Nat
        /\ Square(2 * l + 1) * c \in Nat
    BY <2>1, <2>3, <2>4
  <2>10. (2 * l) * (2 * l) * c < Square(2 * l + 1) * c
    BY <2>7, <2>8, <2>9
  <2> QED BY <2>2, <2>6, <2>10 DEF IsStride
<1>4. l \in StrideOf(Rows(l))
  BY <1>1, <1>2, <1>3 DEF StrideOf
<1>5. \A s \in StrideOf(Rows(l)) : s = l
  BY SquareResolves
<1> QED BY <1>4, <1>5

FilingInv ==
    /\ unfiled \subseteq Outputs
    /\ pc \notin {"new", "resolve"} => unfiled = {}
    /\ pc = "decode" => ~dynamic
    /\ dynamic => filed = {}
    /\ ~dynamic =>
          filed = {[stride |-> o[1], kind |-> o[2], level |-> o[1]] :
                      o \in Outputs \ unfiled}

LEMMA FilingInvariant ==
    ASSUME Width = Height
    PROVE  Spec => []FilingInv
<1>1. Init => FilingInv
  BY DEF Init, FilingInv
<1>2. FilingInv /\ [Next]_vars => FilingInv'
  <2> SUFFICES ASSUME FilingInv, [Next]_vars PROVE FilingInv'
    OBVIOUS
  <2>1. ASSUME NEW o \in Outputs, resolve_bindings_(o[1], o[2])
        PROVE  FilingInv'
    <3> DEFINE F(p) == [stride |-> p[1], kind |-> p[2], level |-> p[1]]
    <3>0. CASE dynamic
      BY <2>1, <3>0 DEF resolve_bindings_, Found, FilingInv
    <3> SUFFICES ASSUME ~dynamic PROVE FilingInv'
      BY <3>0
    <3>1. o[1] \in Levels /\ o = <<o[1], o[2]>>
      BY DEF Outputs
    <3>2. StrideOf(Rows(o[1])) = {o[1]}
      BY <3>1, LevelResolves
    <3>3. o \in unfiled /\ unfiled' = unfiled \ {o}
      BY <2>1, <3>1 DEF resolve_bindings_
    <3>4. filed' = {f \in filed : ~(f.stride = o[1] /\ f.kind = o[2])}
                   \cup {F(o)}
      BY <2>1, <3>2 DEF resolve_bindings_, Found
    <3>5. \A p \in Outputs : F(p).stride = p[1] /\ F(p).kind = p[2]
                              /\ p = <<p[1], p[2]>>
      BY DEF Outputs
    <3>6. filed = {F(p) : p \in Outputs \ unfiled}
      BY DEF FilingInv
    <3>7. \A p \in Outputs \ unfiled : ~(p[1] = o[1] /\ p[2] = o[2])
      BY <3>1, <3>3, <3>5
    <3>8. {f \in filed : ~(f.stride = o[1] /\ f.kind = o[2])} = filed
      BY <3>5, <3>6, <3>7
    <3>9. Outputs \ unfiled' = (Outputs \ unfiled) \cup {o}
      BY <3>3
    <3>10. filed' = {F(p) : p \in Outputs \ unfiled'}
      BY <3>4, <3>6, <3>8, <3>9
    <3>11. /\ pc' \in {"idle", "resolve"} /\ (pc' = "idle" => unfiled' = {})
           /\ dynamic' = dynamic
      BY <2>1 DEF resolve_bindings_
    <3>12. unfiled' \subseteq Outputs
      BY <3>3 DEF FilingInv
    <3> QED BY <3>10, <3>11, <3>12 DEF FilingInv
  <2>2. CASE /\ UNCHANGED filing
             /\ pc' = pc \/ pc' = "resolve" \/ pc \notin {"new", "resolve"}
             /\ pc' = "decode" => pc = "decode" \/ ~dynamic
    BY <2>2 DEF filing, FilingInv
  <2>3. Next => \/ \E o \in Outputs : resolve_bindings_(o[1], o[2])
                \/ /\ UNCHANGED filing
                   /\ pc' = "resolve" \/ pc \notin {"new", "resolve"}
                   /\ pc' = "decode" => pc = "decode" \/ ~dynamic
    BY DEF Next, set_input_shape, detect_batch, Infer, decode_stride, Prepare,
              PrepareThrows, Collect, Throw, Return
  <2> QED BY <2>1, <2>2, <2>3 DEF vars
<1> QED BY <1>1, <1>2, PTL DEF Spec

LEMMA AllFiled ==
    ASSUME FilingInv, pc \notin {"new", "resolve"}, ~dynamic
    PROVE  /\ Complete = Levels
           /\ \A s \in Levels : \A f \in Names(s) : f.level = s
           /\ \A s \in Levels : \A k \in Kinds :
                 \E f \in Names(s) : f.kind = k
<1> DEFINE F(o) == [stride |-> o[1], kind |-> o[2], level |-> o[1]]
<1>1. filed = {F(o) : o \in Outputs}
  BY DEF FilingInv
<1>2. \A s \in Levels : \A k \in Kinds :
          \E f \in filed : f.stride = s /\ f.kind = k
  <2> SUFFICES ASSUME NEW s \in Levels, NEW k \in Kinds
               PROVE  \E f \in filed : f.stride = s /\ f.kind = k
    OBVIOUS
  <2>1. <<s, k>> \in Outputs
    BY DEF Outputs
  <2>2. F(<<s, k>>) \in filed
    BY <1>1, <2>1
  <2>3. F(<<s, k>>).stride = s /\ F(<<s, k>>).kind = k
    OBVIOUS
  <2> QED BY <2>2, <2>3
<1>3. \A f \in filed : f.stride \in Levels /\ f.kind \in Kinds /\ f.level = f.stride
  BY <1>1 DEF Outputs
<1>4. \A s \in Levels : \A k \in Kinds : \E f \in Names(s) : f.kind = k
  BY <1>2 DEF Names
<1>5. \A s : \A f \in Names(s) : f \in filed /\ f.stride = s
  BY DEF Names
<1>6. \A s \in Levels : {f.kind : f \in Names(s)} = Kinds
  BY <1>3, <1>4, <1>5
<1>7. {f.stride : f \in filed} = Levels
  <2>1. "score" \in Kinds
    BY DEF Kinds
  <2> QED BY <1>2, <1>3, <2>1
<1>8. Complete = Levels
  BY <1>6, <1>7 DEF Complete
<1> QED BY <1>3, <1>4, <1>5, <1>8

(* For a square input, decoding reads exactly the rows each output has.    *)
THEOREM DecodeReadsInside ==
    ASSUME Width = Height
    PROVE  Spec => []ReadsInside
<1>1. FilingInv => ReadsInside
  <2> SUFFICES ASSUME FilingInv, NEW s \in Complete, NEW f \in Names(s)
               PROVE  RowsRead(s) <= Rows(f.level)
    BY DEF ReadsInside
  <2>1. f \in filed /\ f.stride = s
    BY DEF Names
  <2>2. s \in Levels /\ f.level = s
    BY <2>1 DEF FilingInv, Outputs
  <2>3. Rows(s) \in Nat
    BY <2>2, LevelCells
  <2> QED BY <2>2, <2>3 DEF RowsRead, Rows
<1> QED BY <1>1, FilingInvariant, PTL

-----------------------------------------------------------------------------
LEMMA DivBounds ==
    ASSUME NEW a \in Nat, NEW d \in Nat \ {0}
    PROVE  /\ a \div d \in Nat
           /\ d * (a \div d) <= a
           /\ a < d * (a \div d) + d
OBVIOUS

LEMMA RoundedBounds ==
    ASSUME NEW a \in Nat, NEW b \in Nat \ {0}
    PROVE  /\ Rounded(a, b) \in Nat
           /\ 2 * (b * Rounded(a, b)) <= 2 * a + b
           /\ 2 * a + b < 2 * (b * Rounded(a, b)) + 2 * b
<1>1. 2 * a + b \in Nat /\ 2 * b \in Nat \ {0}
  OBVIOUS
<1>2. /\ Rounded(a, b) \in Nat
      /\ (2 * b) * Rounded(a, b) <= 2 * a + b
      /\ 2 * a + b < (2 * b) * Rounded(a, b) + 2 * b
  BY <1>1, DivBounds DEF Rounded
<1>3. (2 * b) * Rounded(a, b) = 2 * (b * Rounded(a, b))
  BY <1>2
<1> QED BY <1>2, <1>3

LEMMA StrictlyBelow ==
    ASSUME NEW b \in Nat \ {0}, NEW q \in Int, NEW n \in Int,
           2 * (b * q) < 2 * (b * n) + 2 * b
    PROVE  q <= n
<1>1. SUFFICES ASSUME n + 1 <= q PROVE FALSE
  OBVIOUS
<1>2. b * (n + 1) <= b * q
  BY <1>1
<1>3. b * (n + 1) = b * n + b
  OBVIOUS
<1>4. b * q \in Int /\ b * n \in Int
  OBVIOUS
<1> QED BY <1>2, <1>3, <1>4

LEMMA RoundedAtMost ==
    ASSUME NEW a \in Nat, NEW b \in Nat \ {0}, NEW n \in Nat, a <= b * n
    PROVE  Rounded(a, b) <= n
<1>1. b * n \in Nat
  OBVIOUS
<1>2. /\ Rounded(a, b) \in Nat
      /\ 2 * (b * Rounded(a, b)) <= 2 * a + b
  BY RoundedBounds
<1>3. 2 * (b * Rounded(a, b)) < 2 * (b * n) + 2 * b
  <2>1. b * Rounded(a, b) \in Nat
    BY <1>2
  <2> QED BY <1>1, <1>2, <2>1
<1> QED BY <1>3, <1>1, <1>2, StrictlyBelow

LEMMA RoundedExact ==
    ASSUME NEW b \in Nat \ {0}, NEW n \in Nat
    PROVE  Rounded(b * n, b) = n
<1> DEFINE q == Rounded(b * n, b)
<1>1. b * n \in Nat
  OBVIOUS
<1>2. q \in Nat /\ 2 * (b * n) + b < 2 * (b * q) + 2 * b
  BY <1>1, RoundedBounds
<1>3. q <= n
  BY <1>1, RoundedAtMost
<1>4. 2 * (b * n) < 2 * (b * q) + 2 * b
  BY <1>1, <1>2
<1> HIDE DEF q
<1>5. n <= q
  BY <1>2, <1>4, StrictlyBelow
<1> QED BY <1>2, <1>3, <1>5 DEF q

(* One side of the canvas is filled, the other side holds what the ratio   *)
(* leaves of the picture, and the pads are not negative.                   *)
Fits(box, img) ==
    /\ box.pad[1] >= 0 /\ box.pad[1] + box.size[1] <= Width
    /\ box.pad[2] >= 0 /\ box.pad[2] + box.size[2] <= Height
    /\ box.size[1] = Width \/ box.size[2] = Height
    /\ LET skew == box.size[1] * img.rows - box.size[2] * img.cols
           slack == img.rows + img.cols IN
       -slack <= skew /\ skew <= slack

LEMMA PadFits ==
    ASSUME NEW total \in Nat, NEW part \in Nat, part <= total
    PROVE  /\ (total - part) \div 2 >= 0
           /\ (total - part) \div 2 + part <= total
OBVIOUS

LEMMA LetterboxFits ==
    ASSUME NEW img \in Images, img.cols > 0, img.rows > 0
    PROVE  Fits(letterbox(img), img)
<1> DEFINE c == img.cols
           r == img.rows
<1>1. c \in Nat \ {0} /\ r \in Nat \ {0} /\ Width \in Nat /\ Height \in Nat
  BY DetectorAssumption DEF DetectorAssumption
<1>2. c * Width \in Nat /\ r * Width \in Nat /\ c * Height \in Nat
      /\ r * Height \in Nat /\ Width * r = r * Width /\ Height * c = c * Height
  BY <1>1
<1>3. ASSUME Width * r <= Height * c PROVE Fits(letterbox(img), img)
  <2> DEFINE h == Rounded(r * Width, c)
  <2>1. Rounded(c * Width, c) = Width
    BY <1>1, RoundedExact
  <2>2. h \in Nat /\ 2 * (c * h) <= 2 * (r * Width) + c
        /\ 2 * (r * Width) + c < 2 * (c * h) + 2 * c
    BY <1>1, <1>2, RoundedBounds
  <2>3. h <= Height
    BY <1>1, <1>2, <1>3, RoundedAtMost
  <2>4. letterbox(img) =
          [scale |-> <<Width, c>>, size |-> <<Width, h>>,
           pad |-> <<(Width - Width) \div 2, (Height - h) \div 2>>]
    BY <1>3, <2>1 DEF letterbox, Ratio
  <2> HIDE DEF h, c, r
  <2>5. c * h = h * c /\ h * c \in Nat
    BY <1>1, <2>2
  <2>6. -(r + c) <= Width * r - h * c /\ Width * r - h * c <= r + c
    BY <1>1, <1>2, <2>2, <2>5
  <2>7. (Width - Width) \div 2 = 0
    BY <1>1
  <2>8. (Height - h) \div 2 >= 0 /\ (Height - h) \div 2 + h <= Height
    BY <1>1, <2>2, <2>3, PadFits
  <2> QED BY <1>1, <2>4, <2>6, <2>7, <2>8 DEF Fits, c, r
<1>4. ASSUME ~(Width * r <= Height * c) PROVE Fits(letterbox(img), img)
  <2> DEFINE w == Rounded(c * Height, r)
  <2>1. Rounded(r * Height, r) = Height
    BY <1>1, RoundedExact
  <2>2. w \in Nat /\ 2 * (r * w) <= 2 * (c * Height) + r
        /\ 2 * (c * Height) + r < 2 * (r * w) + 2 * r
    BY <1>1, <1>2, RoundedBounds
  <2>3. w <= Width
    <3>1. c * Height <= r * Width
      BY <1>2, <1>4
    <3> QED BY <3>1, <1>1, <1>2, RoundedAtMost
  <2>4. letterbox(img) =
          [scale |-> <<Height, r>>, size |-> <<w, Height>>,
           pad |-> <<(Width - w) \div 2, (Height - Height) \div 2>>]
    BY <1>4, <2>1 DEF letterbox, Ratio
  <2> HIDE DEF w, c, r
  <2>5. r * w = w * r /\ w * r \in Nat
    BY <1>1, <2>2
  <2>6. -(r + c) <= w * r - Height * c /\ w * r - Height * c <= r + c
    BY <1>1, <1>2, <2>2, <2>5
  <2>7. (Height - Height) \div 2 = 0
    BY <1>1
  <2>8. (Width - w) \div 2 >= 0 /\ (Width - w) \div 2 + w <= Width
    BY <1>1, <2>2, <2>3, PadFits
  <2> QED BY <1>1, <2>4, <2>6, <2>7, <2>8 DEF Fits, c, r
<1> QED BY <1>3, <1>4

(* Where the call is, and what letterbox was given.                        *)
CallInv ==
    /\ images \in Seq(Images)
    /\ image \in Nat
    /\ pc \in {"prepare", "infer", "decode"} => image \in DOMAIN images
    /\ pc \in {"infer", "decode"} => Usable(images[image])
                                   /\ lb = letterbox(images[image])

LEMMA CallInvariant == Spec => []CallInv
<1>1. Init => CallInv
  BY DEF Init, CallInv
<1>2. CallInv /\ [Next]_vars => CallInv'
  <2> SUFFICES ASSUME CallInv, [Next]_vars PROVE CallInv'
    OBVIOUS
  <2> USE DEF CallInv
  <2>1. ASSUME NEW imgs \in Calls, detect_batch(imgs) PROVE CallInv'
    <3>1. PICK n \in 0..MaxImages : imgs \in [1..n -> Images]
      BY DEF Calls
    <3>2. n \in Nat
      BY DetectorAssumption DEF DetectorAssumption
    <3>3. imgs \in Seq(Images) /\ (imgs # <<>> => 1 \in DOMAIN imgs)
      BY <3>1, <3>2
    <3>4. images' = imgs /\ image' = 1 /\ pc' \in {"done", "prepare"}
          /\ (pc' = "prepare" => imgs # <<>>)
      BY <2>1 DEF detect_batch
    <3> QED BY <3>3, <3>4
  <2>2. CASE Prepare
    BY <2>2 DEF Prepare
  <2>3. CASE PrepareThrows
    BY <2>3 DEF PrepareThrows
  <2>4. ASSUME NEW anchors \in Views, Infer(anchors) PROVE CallInv'
    BY <2>4 DEF Infer
  <2>5. ASSUME NEW s \in pending, decode_stride(s) PROVE CallInv'
    BY <2>5 DEF decode_stride
  <2>6. CASE Collect
    <3>1. images' = images /\ image' = image + 1 /\ image \in DOMAIN images
          /\ pc' \in {"prepare", "done"}
          /\ (pc' = "prepare" => image < Len(images))
      BY <2>6 DEF Collect
    <3>2. pc' = "prepare" => image + 1 \in DOMAIN images
      BY <3>1
    <3> QED BY <3>1, <3>2
  <2>7. CASE Throw
    BY <2>7 DEF Throw
  <2>8. CASE Return
    BY <2>8 DEF Return
  <2>9. ASSUME NEW o \in Outputs, resolve_bindings_(o[1], o[2]) PROVE CallInv'
    BY <2>9 DEF resolve_bindings_
  <2>10. CASE UNCHANGED vars
    BY <2>10 DEF vars, Usable, letterbox, Ratio
  <2>11. CASE set_input_shape
    BY <2>11 DEF set_input_shape
  <2> QED BY <2>1, <2>2, <2>3, <2>4, <2>5, <2>6, <2>7, <2>8, <2>9, <2>10, <2>11 DEF Next
<1> QED BY <1>1, <1>2, PTL DEF Spec

(* Whatever the sizes of the input and of the image, the picture letterbox *)
(* makes lies on the canvas and keeps the image's shape.                   *)
THEOREM PictureFitsCanvas == Spec => []PictureOnCanvas
<1>1. CallInv => PictureOnCanvas
  <2> SUFFICES ASSUME CallInv, pc = "infer" PROVE PictureOnCanvas
    BY DEF PictureOnCanvas
  <2>1. images[image] \in Images
    BY DEF CallInv
  <2>2. images[image].cols > 0 /\ images[image].rows > 0
        /\ lb = letterbox(images[image])
    BY DEF CallInv, Usable
  <2>3. Fits(lb, images[image])
    BY <2>1, <2>2, LetterboxFits
  <2> QED BY <2>3 DEF Fits, PictureOnCanvas
<1> QED BY <1>1, CallInvariant, PTL

-----------------------------------------------------------------------------
(* What has been decoded of the images so far, for a square input.         *)
FacesOf(box, anchors) == {Detection(a[1], a[2], box) : a \in anchors}
Faces == UNION {FacesOf(letterbox(img), Anchors) : img \in Images}

Decoded ==
    \A i \in DOMAIN results :
        /\ results[i] \subseteq FacesOf(letterbox(images[i]), seen[i])
        /\ results[i] = {} => seen[i] = {}
        /\ Usable(images[i])

DecodeInv ==
    /\ seen \in Seq(SUBSET Anchors)
    /\ results \in Seq(SUBSET Faces)
    /\ pc \in {"prepare", "infer", "decode", "done"} => Decoded
    /\ pc \in {"prepare", "infer"} =>
          Len(seen) = image - 1 /\ Len(results) = image - 1
    /\ pc = "decode" =>
          /\ Len(seen) = image /\ Len(results) = image - 1
          /\ pending \subseteq Levels
          /\ raw = FacesOf(lb, {a \in seen[image] : a[1] \notin pending})
    /\ pc = "done" => Len(seen) = Len(images) /\ Len(results) = Len(images)

LEMMA AnchorsArePairs ==
    ASSUME NEW a \in Anchors
    PROVE  a[1] \in Levels /\ a[2] \in 0..(Rows(a[1]) - 1) /\ a = <<a[1], a[2]>>
BY DEF Anchors

LEMMA ViewsAreAnchors ==
    ASSUME Width = Height, NEW v \in Views
    PROVE  v \in SUBSET Anchors
<1>1. 8 \in Levels /\ 32 \in Levels
  BY DEF Levels
<1>2. Rows(8) \in Nat \ {0} /\ Rows(32) \in Nat \ {0}
  <2>1. ASSUME NEW l \in Levels PROVE Rows(l) \in Nat \ {0}
    <3>1. Width \div l \in Nat \ {0} /\ Rows(l) = (Width \div l) * (Width \div l) * 2
      BY LevelCells
    <3> QED BY <3>1
  <2> QED BY <1>1, <2>1
<1>3. <<8, 0>> \in Anchors /\ <<32, Rows(32) - 1>> \in Anchors
  <2>1. 0 \in 0..(Rows(8) - 1) /\ Rows(32) - 1 \in 0..(Rows(32) - 1)
    BY <1>2
  <2> QED BY <1>1, <2>1 DEF Anchors
<1> QED BY <1>3 DEF Views

LEMMA ConfidentRows ==
    ASSUME Width = Height, FilingInv, pc = "decode", NEW s \in Levels
    PROVE  Confident(s) = {{r \in 0..(Rows(s) - 1) : <<s, r>> \in seen[image]}}
<1> DEFINE score == CHOOSE f \in Names(s) : f.kind = "score"
<1>1. score.level = s
  <2>1. \E f \in Names(s) : f.kind = "score"
    BY AllFiled DEF Kinds, FilingInv
  <2>2. score \in Names(s)
    BY <2>1
  <2> QED BY <2>2, AllFiled DEF FilingInv
<1>2. RowsRead(s) = Rows(s) /\ Rows(s) \in Nat
  BY LevelCells DEF RowsRead, Rows
<1>3. Rows(s)..(RowsRead(s) - 1) = {}
  BY <1>2
<1> HIDE DEF score
<1> QED BY <1>1, <1>2, <1>3 DEF Confident, score

LEMMA FacesTyped ==
    ASSUME NEW img \in Images, NEW anchors \in SUBSET Anchors
    PROVE  FacesOf(letterbox(img), anchors) \in SUBSET Faces
BY DEF Faces, FacesOf

LEMMA DecodeInvariant ==
    ASSUME Width = Height
    PROVE  Spec => []DecodeInv
<1>1. Init => DecodeInv
  BY DEF Init, DecodeInv, Decoded
<1>2. CallInv /\ FilingInv /\ DecodeInv /\ [Next]_vars => DecodeInv'
  <2> SUFFICES ASSUME CallInv, FilingInv, DecodeInv, [Next]_vars
               PROVE  DecodeInv'
    OBVIOUS
  <2>1. ASSUME NEW imgs \in Calls, detect_batch(imgs) PROVE DecodeInv'
    BY <2>1 DEF detect_batch, DecodeInv, Decoded
  <2>2. CASE Prepare
    BY <2>2 DEF Prepare, DecodeInv, Decoded
  <2>3. CASE PrepareThrows
    BY <2>3 DEF PrepareThrows, DecodeInv
  <2>4. ASSUME NEW anchors \in Views, Infer(anchors) PROVE DecodeInv'
    <3>1. anchors \in SUBSET Anchors
      BY ViewsAreAnchors
    <3>2. /\ pc = "infer" /\ pc' = "decode" /\ ~dynamic
          /\ seen' = Append(seen, anchors)
          /\ raw' = {} /\ pending' = Complete
          /\ UNCHANGED <<images, image, lb, results>>
      BY <2>4 DEF Infer, EmptyRaw
    <3>3. pending' = Levels
      BY <3>2, AllFiled
    <3>4. /\ seen' \in Seq(SUBSET Anchors) /\ Len(seen') = image
          /\ seen'[image] = anchors
          /\ \A i \in DOMAIN results : seen'[i] = seen[i]
      <4>1. seen \in Seq(SUBSET Anchors) /\ results \in Seq(SUBSET Faces)
            /\ Len(seen) = image - 1 /\ Len(results) = image - 1 /\ image \in Nat
        BY <3>2 DEF DecodeInv, CallInv
      <4> QED BY <3>1, <3>2, <4>1
    <3>5. raw' = FacesOf(lb, {a \in seen'[image] : a[1] \notin Levels})
      BY <3>1, <3>2, <3>4, AnchorsArePairs DEF FacesOf
    <3>6. Decoded'
      BY <3>2, <3>4 DEF DecodeInv, Decoded
    <3> QED BY <3>2, <3>3, <3>4, <3>5, <3>6 DEF DecodeInv
  <2>5. ASSUME NEW s \in pending, decode_stride(s) PROVE DecodeInv'
    <3>1. /\ pc = "decode" /\ pc' = "decode"
          /\ pending' = pending \ {s}
          /\ UNCHANGED <<images, image, lb, seen, results>>
          /\ s \in Levels
      BY <2>5 DEF decode_stride, DecodeInv
    <3>2. PICK rows \in Confident(s) :
              raw' = raw \cup {Detection(s, r, lb) : r \in rows}
      BY <2>5 DEF decode_stride
    <3>3. rows = {r \in 0..(Rows(s) - 1) : <<s, r>> \in seen[image]}
      BY <3>1, <3>2, ConfidentRows
    <3> DEFINE view == seen[image]
               new == {a \in view : a[1] = s}
    <3>4. view \in SUBSET Anchors
      <4>1. seen \in Seq(SUBSET Anchors) /\ Len(seen) = image
            /\ image \in DOMAIN images /\ images \in Seq(Images)
        BY <3>1 DEF DecodeInv, CallInv
      <4> QED BY <4>1
    <3>5. {Detection(s, r, lb) : r \in rows} = FacesOf(lb, new)
      <4>1. ASSUME NEW r \in rows PROVE Detection(s, r, lb) \in FacesOf(lb, new)
        <5>1. <<s, r>> \in new
          BY <3>3
        <5> QED BY <5>1 DEF FacesOf
      <4>2. ASSUME NEW a \in new PROVE a[2] \in rows /\ a[1] = s
        BY <3>3, <3>4, AnchorsArePairs
      <4> QED BY <4>1, <4>2 DEF FacesOf
    <3>6. {a \in view : a[1] \notin pending \ {s}} =
              {a \in view : a[1] \notin pending} \cup new
      OBVIOUS
    <3>7. \A x, y : FacesOf(lb, x \cup y) = FacesOf(lb, x) \cup FacesOf(lb, y)
      BY DEF FacesOf
    <3>8. raw = FacesOf(lb, {a \in view : a[1] \notin pending})
      BY <3>1 DEF DecodeInv
    <3>9. raw' = FacesOf(lb, {a \in view : a[1] \notin pending'})
      <4> DEFINE old == {a \in view : a[1] \notin pending}
                 all == {a \in view : a[1] \notin pending \ {s}}
      <4>1. all = old \cup new
        BY <3>6
      <4>2. raw' = FacesOf(lb, old) \cup FacesOf(lb, new)
        BY <3>2, <3>5, <3>8
      <4>3. raw' = FacesOf(lb, all)
        <5> HIDE DEF old, all, new
        <5> QED BY <4>1, <4>2, <3>7
      <4>4. all = {a \in view : a[1] \notin pending'}
        BY <3>1
      <4> QED BY <4>3, <4>4
    <3> QED BY <3>1, <3>9 DEF DecodeInv, Decoded
  <2>6. CASE Collect
    <3>1. /\ pc = "decode" /\ pc' \in {"prepare", "done"} /\ pending = {}
          /\ image' = image + 1
          /\ pc' = "done" => ~(image < Len(images))
          /\ UNCHANGED <<images, seen>>
      BY <2>6 DEF Collect
    <3>2. PICK kept \in nms(raw) : results' = Append(results, kept)
      BY <2>6 DEF Collect
    <3>3. kept \subseteq raw /\ (kept = {} => raw = {})
      BY <3>2 DEF nms
    <3>4. /\ image \in Nat /\ image \in DOMAIN images /\ images \in Seq(Images)
          /\ Usable(images[image]) /\ lb = letterbox(images[image])
      BY <3>1 DEF CallInv
    <3>5. /\ seen \in Seq(SUBSET Anchors) /\ Len(seen) = image
          /\ results \in Seq(SUBSET Faces) /\ Len(results) = image - 1
          /\ Decoded
          /\ raw = FacesOf(lb, {a \in seen[image] : a[1] \notin pending})
      BY <3>1 DEF DecodeInv
    <3>6. images[image] \in Images /\ seen[image] \in SUBSET Anchors
      BY <3>4, <3>5
    <3>7. raw = FacesOf(lb, seen[image])
      <4>1. {a \in seen[image] : a[1] \notin pending} = seen[image]
        BY <3>1
      <4> QED BY <3>5, <4>1
    <3>8. kept \in SUBSET Faces
      BY <3>3, <3>4, <3>6, <3>7, FacesTyped
    <3>9. /\ results' \in Seq(SUBSET Faces) /\ Len(results') = image
          /\ results'[image] = kept
          /\ \A i \in DOMAIN results' : i \in DOMAIN results \/ i = image
          /\ \A i \in DOMAIN results : results'[i] = results[i]
      BY <3>2, <3>4, <3>5, <3>8
    <3>10. Decoded'
      <4> SUFFICES ASSUME NEW i \in DOMAIN results'
                   PROVE  /\ results'[i] \subseteq FacesOf(letterbox(images[i]), seen[i])
                          /\ results'[i] = {} => seen[i] = {}
                          /\ Usable(images[i])
        BY <3>1 DEF Decoded
      <4>1. CASE i \in DOMAIN results
        BY <3>5, <3>9, <4>1 DEF Decoded
      <4>2. CASE i = image
        <5>1. raw = {} => seen[image] = {}
          BY <3>7 DEF FacesOf
        <5> QED BY <3>3, <3>4, <3>7, <3>9, <4>2, <5>1
      <4> QED BY <3>9, <4>1, <4>2
    <3>11. pc' = "done" => image = Len(images)
      BY <3>1, <3>4
    <3>12. pc' = "prepare" => Len(seen') = image' - 1 /\ Len(results') = image' - 1
      BY <3>1, <3>4, <3>5, <3>9
    <3> QED BY <3>1, <3>5, <3>9, <3>10, <3>11, <3>12 DEF DecodeInv
  <2>7. CASE Throw
    BY <2>7 DEF Throw, DecodeInv
  <2>8. CASE Return
    BY <2>8 DEF Return, DecodeInv
  <2>9. ASSUME NEW o \in Outputs, resolve_bindings_(o[1], o[2]) PROVE DecodeInv'
    BY <2>9 DEF resolve_bindings_, DecodeInv
  <2>10. CASE UNCHANGED vars
    BY <2>10 DEF vars, DecodeInv, Decoded
  <2>11. CASE set_input_shape
    BY <2>11 DEF set_input_shape, DecodeInv
  <2> QED BY <2>1, <2>2, <2>3, <2>4, <2>5, <2>6, <2>7, <2>8, <2>9, <2>10, <2>11 DEF Next
<1> QED BY <1>1, <1>2, CallInvariant, FilingInvariant, PTL DEF Spec

(* For a square input, a call that returns has for each image, in order,   *)
(* the faces the network saw in that image, each at its place in it.       *)
THEOREM FacesOfTheirImage ==
    ASSUME Width = Height
    PROVE  Spec => []FacesOfEachImage
<1>1. DecodeInv => FacesOfEachImage
  BY DEF DecodeInv, Decoded, FacesOf, FacesOfEachImage
<1> QED BY <1>1, DecodeInvariant, PTL

-----------------------------------------------------------------------------
LEMMA UndoIsCentred ==
    ASSUME NEW x \in Int, NEW across \in Nat, NEW length \in Nat,
           NEW num \in Nat, NEW den \in Nat \ {0}, NEW size \in Nat,
           size = Rounded(length * num, den), size <= across,
           NEW pad, pad = (across - size) \div 2
    PROVE  Centred(x, across, (x - pad) * den, length, <<num, den>>)
<1> DEFINE k == length * num
           m == den * size
           off == (2 * x - across) * den - (2 * ((x - pad) * den) - num * length)
<1>1. k \in Nat /\ num * length = k /\ m \in Nat
  OBVIOUS
<1>2. 2 * m <= 2 * k + den /\ 2 * k + den < 2 * m + 2 * den
  BY <1>1, RoundedBounds
<1>3. PICK e \in {0, 1} : pad \in Int /\ 2 * pad = across - size - e
  <2>1. across - size \in Nat
    OBVIOUS
  <2>2. \A n \in Nat : n \div 2 \in Int
                     /\ (2 * (n \div 2) = n \/ 2 * (n \div 2) = n - 1)
    OBVIOUS
  <2>3. pad \in Int /\ (2 * pad = across - size \/ 2 * pad = across - size - 1)
    BY <2>1, <2>2
  <2>4. CASE 2 * pad = across - size
    <3>1. 0 \in {0, 1} /\ 2 * pad = across - size - 0
      BY <2>4
    <3> QED BY <2>3, <3>1
  <2>5. CASE 2 * pad = across - size - 1
    BY <2>3, <2>5
  <2> QED BY <2>3, <2>4, <2>5
<1>4. off = k - m - e * den
  <2>1. off = (2 * x - across) * den - (2 * x - 2 * pad) * den + k
    BY <1>1, <1>3
  <2>2. 2 * x - 2 * pad = 2 * x - across + size + e
    BY <1>3
  <2>3. (2 * x - across + size + e) * den = (2 * x - across) * den + m + e * den
    BY <1>3
  <2>4. (2 * x - across) * den \in Int /\ e * den \in Int
    BY <1>3
  <2> HIDE DEF off, k, m
  <2> QED BY <1>1, <2>1, <2>2, <2>3, <2>4
<1> HIDE DEF off, k, m
<1>5. -2 * den < off /\ off < 2 * den
  <2>1. CASE e = 0
    BY <1>1, <1>2, <1>4, <2>1
  <2>2. CASE e = 1
    BY <1>1, <1>2, <1>4, <2>2
  <2> QED BY <2>1, <2>2
<1> QED BY <1>5 DEF Centred, off

(* A row is put where the network has it: Place undoes the numbering.      *)
LEMMA PlaceIsCell ==
    ASSUME NEW a \in Anchors
    PROVE  /\ Place(a[1], a[2])[1] \in Int /\ Place(a[1], a[2])[2] \in Int
           /\ \E x \in 0..(Width \div a[1]), y \in 0..(Height \div a[1]) :
                 LiesAt(a, x, y) /\ Place(a[1], a[2]) = <<x * a[1], y * a[1]>>
<1> DEFINE l == a[1]
           cell == a[2] \div 2
           k == a[2] % 2
           across == Width \div l
           down == Height \div l
           x == cell % across
           y == cell \div across
<1>1. l \in Levels /\ a[2] \in 0..(Rows(l) - 1)
  BY AnchorsArePairs
<1>2. /\ l \in Nat \ {0} /\ across \in Nat \ {0} /\ down \in Nat \ {0}
  <2>1. /\ Width \in Nat \ {0} /\ Width % 32 = 0
        /\ Height \in Nat \ {0} /\ Height % 32 = 0
    BY DetectorAssumption DEF DetectorAssumption
  <2>2. CASE l = 8
    BY <2>1, <2>2
  <2>3. CASE l = 16
    BY <2>1, <2>3
  <2>4. CASE l = 32
    BY <2>1, <2>4
  <2> QED BY <1>1, <2>2, <2>3, <2>4 DEF Levels
<1>3. a[2] \in Nat /\ a[2] < down * across * 2
  <2>1. Rows(l) = down * across * 2
    BY DEF Rows, AnchorsPerLocation
  <2>2. down * across * 2 \in Nat
    BY <1>2
  <2> QED BY <1>1, <2>1, <2>2
<1>4. cell \in Nat /\ k \in 0..1 /\ a[2] = cell * 2 + k
  BY <1>3
<1>5. Place(a[1], a[2]) = <<x * l, y * l>>
  BY DEF Place, AnchorsPerLocation
<1>6. cell < down * across
  <2>1. down * across \in Nat
    BY <1>2
  <2> HIDE DEF cell, k, across, down
  <2> QED BY <1>3, <1>4, <2>1
<1> HIDE DEF cell, across, down, k
<1>7. /\ y \in Nat /\ x \in 0..(across - 1)
      /\ cell = y * across + x
  <2>1. /\ y \in Nat /\ across * y <= cell /\ cell < across * y + across
    BY <1>2, <1>4, DivBounds
  <2>2. x \in 0..(across - 1) /\ cell = across * y + x
    BY <1>2, <1>4
  <2>3. across * y = y * across
    BY <1>2, <2>1
  <2> QED BY <2>1, <2>2, <2>3
<1> HIDE DEF x, y
<1>8. y <= down
  <2>1. SUFFICES ASSUME down + 1 <= y PROVE FALSE
    BY <1>2, <1>7
  <2>2. (down + 1) * across <= y * across
    BY <1>2, <1>7, <2>1
  <2>3. (down + 1) * across = down * across + across
    BY <1>2
  <2>4. down * across \in Nat /\ y * across \in Nat
    BY <1>2, <1>7
  <2> QED BY <1>2, <1>6, <1>7, <2>2, <2>3, <2>4
<1>9. LiesAt(a, x, y)
  <2>1. a[2] = (y * across + x) * 2 + k
    BY <1>4, <1>7
  <2> QED BY <1>4, <1>7, <2>1 DEF LiesAt, across, AnchorsPerLocation
<1>10. x \in 0..across /\ y \in 0..down
  BY <1>2, <1>7, <1>8
<1>11. x * l \in Int /\ y * l \in Int
  BY <1>2, <1>7
<1> QED BY <1>5, <1>9, <1>10, <1>11 DEF across, down

LEMMA DetectionIsCentred ==
    ASSUME NEW img \in Images, Usable(img), NEW a \in Anchors
    PROVE  LET d == Detection(a[1], a[2], letterbox(img))
               p == Place(a[1], a[2])
               scale == Ratio(img) IN
           /\ d.stride = a[1] /\ d.per = scale[1]
           /\ Centred(p[1], Width, d.at[1], img.cols, scale)
           /\ Centred(p[2], Height, d.at[2], img.rows, scale)
<1> DEFINE d == Detection(a[1], a[2], letterbox(img))
           p == Place(a[1], a[2])
           num == Ratio(img)[1]
           den == Ratio(img)[2]
           w == Rounded(img.cols * num, den)
           h == Rounded(img.rows * num, den)
           padx == (Width - w) \div 2
           pady == (Height - h) \div 2
<1>1. /\ Width \in Nat /\ Height \in Nat /\ img.cols \in Nat \ {0}
      /\ img.rows \in Nat \ {0}
  BY DetectorAssumption DEF DetectorAssumption, Usable
<1>2. num \in Nat /\ den \in Nat \ {0} /\ Ratio(img) = <<num, den>>
  BY <1>1 DEF Ratio
<1>3. letterbox(img) = [scale |-> Ratio(img), size |-> <<w, h>>,
                        pad |-> <<padx, pady>>]
  BY DEF letterbox
<1>4. /\ d.stride = a[1] /\ d.per = num
      /\ d.at[1] = (p[1] - padx) * den /\ d.at[2] = (p[2] - pady) * den
  <2> HIDE DEF num, den, w, h, padx, pady, p
  <2> QED BY <1>2, <1>3 DEF Detection, undo_letterbox, p
<1>5. w \in Nat /\ h \in Nat
  <2>1. img.cols * num \in Nat /\ img.rows * num \in Nat
    BY <1>1, <1>2
  <2> HIDE DEF num, den
  <2> QED BY <1>2, <2>1, RoundedBounds
<1>6. w <= Width /\ h <= Height
  <2>1. Fits(letterbox(img), img)
    BY <1>1, LetterboxFits
  <2>2. padx + w <= Width /\ padx >= 0 /\ pady + h <= Height /\ pady >= 0
    BY <1>3, <2>1 DEF Fits
  <2>3. padx \in Int /\ pady \in Int
    BY <1>1, <1>5
  <2> HIDE DEF w, h, padx, pady
  <2> QED BY <1>1, <1>5, <2>2, <2>3
<1>7. p[1] \in Int /\ p[2] \in Int
  BY PlaceIsCell
<1> HIDE DEF p, d, num, den
<1>8. Centred(p[1], Width, (p[1] - padx) * den, img.cols, <<num, den>>)
  BY <1>1, <1>2, <1>5, <1>6, <1>7, UndoIsCentred
<1>9. Centred(p[2], Height, (p[2] - pady) * den, img.rows, <<num, den>>)
  BY <1>1, <1>2, <1>5, <1>6, <1>7, UndoIsCentred
<1> QED BY <1>2, <1>4, <1>8, <1>9 DEF p, d, num

(* For a square input, every face a call returns is as far from the centre *)
(* of its image as its anchor is from the centre of the input.             *)
THEOREM FacesPlacedByCentre ==
    ASSUME Width = Height
    PROVE  Spec => []FacesWhereSeen
<1>1. CallInv /\ DecodeInv => FacesWhereSeen
  <2> SUFFICES ASSUME CallInv, DecodeInv, pc = "done",
                      NEW i \in DOMAIN results, NEW d \in results[i]
               PROVE  \E a \in seen[i] :
                          LET img == images[i]
                              scale == Ratio(img) IN
                          /\ d.stride = a[1] /\ d.per = scale[1]
                          /\ \E x \in 0..(Width \div a[1]),
                                y \in 0..(Height \div a[1]) :
                                /\ LiesAt(a, x, y)
                                /\ Centred(x * a[1], Width, d.at[1], img.cols, scale)
                                /\ Centred(y * a[1], Height, d.at[2], img.rows, scale)
    BY DEF FacesWhereSeen
  <2>1. /\ results[i] \subseteq FacesOf(letterbox(images[i]), seen[i])
        /\ Usable(images[i])
    BY DEF DecodeInv, Decoded
  <2>2. PICK a \in seen[i] : d = Detection(a[1], a[2], letterbox(images[i]))
    BY <2>1 DEF FacesOf
  <2>3. images[i] \in Images /\ seen[i] \in SUBSET Anchors
    <3>1. /\ images \in Seq(Images) /\ seen \in Seq(SUBSET Anchors)
          /\ results \in Seq(SUBSET Faces)
          /\ Len(seen) = Len(images) /\ Len(results) = Len(images)
      BY DEF CallInv, DecodeInv
    <3> QED BY <3>1
  <2>4. a \in Anchors
    BY <2>3
  <2>5. PICK x \in 0..(Width \div a[1]), y \in 0..(Height \div a[1]) :
            LiesAt(a, x, y) /\ Place(a[1], a[2]) = <<x * a[1], y * a[1]>>
    BY <2>4, PlaceIsCell
  <2>6. Place(a[1], a[2])[1] = x * a[1] /\ Place(a[1], a[2])[2] = y * a[1]
    BY <2>5
  <2>7. /\ d.stride = a[1] /\ d.per = Ratio(images[i])[1]
        /\ Centred(x * a[1], Width, d.at[1], images[i].cols, Ratio(images[i]))
        /\ Centred(y * a[1], Height, d.at[2], images[i].rows, Ratio(images[i]))
    BY <2>1, <2>2, <2>3, <2>4, <2>6, DetectionIsCentred
  <2> QED BY <2>5, <2>7
<1> QED BY <1>1, CallInvariant, DecodeInvariant, PTL
=============================================================================
