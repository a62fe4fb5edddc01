--------------------------- MODULE MCCarveSession ---------------------------
(***************************************************************************)
(* Small disks for CarveSession: ordinary data everywhere but in a few     *)
(* sectors, which hold anything when there are at most Marks of them, and  *)
(* headers of two types or a footer of one when there is one more; headers *)
(* whose sector also holds a footer, one that ends early or not, included. *)
(* One disk has more headers than a carve may add files.                   *)
(***************************************************************************)
EXTENDS CarveSession

CONSTANT Marks

MCMaxFileSize == [jpg |-> 0, pdf |-> 3, png |-> 4]
MCTrailer == [jpg |-> "single", pdf |-> "last", png |-> "first"]

HeaderWith(h, f, short) == Sector("header", h, f, short)
FewContents == {Header("jpg"), Header("pdf"), Footer("jpg")}
Contents == {Empty} \cup {Header(h) : h \in Hints} \cup {Footer(h) : h \in Hints}
            \cup {HeaderWith("jpg", "pdf", TRUE), HeaderWith("pdf", "pdf", TRUE),
                  HeaderWith("pdf", "jpg", FALSE)}

DisksWith(k, contents, places) ==
  UNION {{[s \in Sectors |-> IF s \in marked THEN c[s] ELSE Data] : c \in [marked -> contents]} :
         marked \in kSubset(k, places)}

Crowded == [s \in Sectors |-> IF s % 2 = 0 THEN Header("jpg") ELSE Header("pdf")]

MCDisks == UNION {DisksWith(k, Contents, Sectors) : k \in 0 .. Marks}
           \cup DisksWith(Marks + 1, FewContents, 1 .. Size - 2) \cup {Crowded}
=============================================================================
