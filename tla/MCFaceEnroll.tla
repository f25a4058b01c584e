---------------------------- MODULE MCFaceEnroll ----------------------------
(* Two photos of one person, one of them with a larger face behind a       *)
(* smaller; one of another person; one unreadable and one of nobody.       *)
EXTENDS FaceEnroll

CONSTANTS ann, ben

Photo(number, name, readable, faces) ==
    [file |-> number, name |-> name, readable |-> readable, faces |-> faces]

SomePhotos ==
    {Photo(1, ann, TRUE, <<1, 3>>), Photo(2, ann, TRUE, <<2>>),
     Photo(3, ben, TRUE, <<2, 2>>), Photo(4, ben, FALSE, <<1>>),
     Photo(5, ben, TRUE, <<>>)}

HashOf == [n \in {ann, ben} |-> IF n = ann THEN 1 ELSE 2]
=============================================================================
