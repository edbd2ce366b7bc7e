-------------------------- MODULE MCFileExtraction --------------------------
(***************************************************************************)
(* Small inputs for FileExtraction: every kind of document by itself and in*)
(* an archive beside another entry, archives in archives down to one more  *)
(* than are opened, downloads of up to three chunks.                       *)
(***************************************************************************)
EXTENDS FileExtraction, SequencesExt

Plain == [kind |-> "plain", words |-> 1, printable |-> TRUE]
Unknown == [kind |-> "plain", words |-> 1, printable |-> FALSE]
Pdf(layer, pages, long) == [kind |-> "pdf", layer |-> layer, pages |-> pages, long |-> long]
Scan == Pdf(0, 2, FALSE)
Stamped == Pdf(1, 2, FALSE)  \* a scan with a few words in its layer
Cfbf ==
  {f \in [kind : {"cfbf"}, holds : {"doc", "msg"}, streams : SUBSET {"doc", "msg"}, words : {0, 2}] :
     f.words = 0 => f.holds = "doc"}
SomeDocuments ==
  [kind : {"docx", "xlsx"}, words : {1}, sound : BOOLEAN]
  \cup {[kind |-> "rtf", words |-> 1],
        Pdf(2, 2, TRUE), Scan, Stamped, Plain, Unknown} \cup Cfbf

Packed(file, hint) == [file |-> file, hint |-> hint, inflates |-> TRUE]
Beside ==
  {Packed(Plain, "none"), Packed(Plain, "picture"), Packed(Plain, "plumbing"),
   [Packed(Plain, "none") EXCEPT !.inflates = FALSE], Packed(Stamped, "none"), Packed(Unknown, "none"),
   Packed(Plain, "mimetype"), [Packed(Plain, "mimetype") EXCEPT !.inflates = FALSE]}
ZipOf(entries) == [kind |-> "zip", entries |-> entries]
Around(entries) ==
  {ZipOf(<<e>>) : e \in entries} \cup {ZipOf(<<e, o>>) : e \in entries, o \in Beside}
    \cup {ZipOf(<<o, e>>) : e \in entries, o \in Beside}

Level1 == Around({Packed(f, h) : f \in SomeDocuments, h \in {"none", "txt", "doc"}})
Small == Around(Beside)
Level2 == Around({Packed(f, "none") : f \in Small})
Level3 == Around({Packed(ZipOf(<<Packed(Plain, "none"), Packed(f, "none")>>), "none") : f \in Small})
Level4 ==
  {ZipOf(<<Packed(ZipOf(<<o, Packed(ZipOf(<<Packed(ZipOf(<<>>), "none"), p>>), "none")>>), "none")>>) :
     o, p \in Beside}

SomeOptions == [ocr : BOOLEAN, installed : BOOLEAN, ocrMaxPages : {1}]
Input ==
  [kind : {"file"}, file : SomeDocuments, hint : {"none", "txt", "doc"}, opts : SomeOptions,
   maxChars : {1, 9}]
  \cup [kind : {"file"}, file : Level1 \cup Level2 \cup Level3 \cup Level4, hint : {"none"},
        opts : SomeOptions, maxChars : {1, 9}]
  \cup [kind : {"download"}, request : [maxBytes : 0..4, defaultBytes : {2}, ceiling : {3}],
        answer : [chunks : BoundedSeq(0..2, 3), streamed : BOOLEAN, declared : -1..4,
                  loginPage : BOOLEAN]]
=============================================================================
