--------------------------- MODULE FileExtraction ---------------------------
(***************************************************************************)
(* read-file: the body of an attachment, downloaded under a limit, and the *)
(* text taken out of it - out of documents, and out of archives that hold  *)
(* documents and archives again.                                           *)
(*                                                                         *)
(* A file is a record: what its bytes are, and how many words it has.  A   *)
(* text is a sequence of words, each named by where it stands: <<2, 1, 5>> *)
(* is word 5 of the first entry of an archive, the second entry of the     *)
(* file.  A word of a PDF is named by what it is read from as well, 1 for  *)
(* the text layer and 2 for the pages as pictures: what stands in both is  *)
(* in the text twice if both are read.  The libraries that read one format *)
(* (unpdf, tesseract, word-extractor, msgreader, zlib) are what they       *)
(* return or throw; an archive without a directory is a document that is   *)
(* not sound.  The entries of an archive have different names.             *)
(***************************************************************************)
EXTENDS Integers, Sequences

Extracted(words, format) ==
  [ok |-> TRUE, text |-> [n \in 1..words |-> <<n>>], format |-> format,
   parts |-> {}, skippedParts |-> {}]
Thrown(error) == [ok |-> FALSE, error |-> error]
Unsupported == Thrown("creatio_file_text_unsupported")
Failed == Thrown("creatio_file_text_extraction_failed")

-----------------------------------------------------------------------------
(* One document *)

\* extractDocx, extractXlsx: without the part that must be there they throw.
ExtractOffice(file) == IF file.sound THEN Extracted(file.words, file.kind) ELSE Failed

FirstPages(words, n) == IF words <= n THEN words ELSE n

\* extractPdf: a long enough text layer (50 characters a page) is the text.  A short one,
\* or none, comes alone if recognition is not wanted (or disabled); else the first
\* `ocrMaxPages` pages, of one word each, are read behind it, and without the libraries
\* for that the extraction fails, whatever is in the layer.
Recognised(file, opts) == ~file.long /\ opts.ocr
PdfText(layer, seen) == [n \in 1..layer + seen |-> IF n <= layer THEN <<1, n>> ELSE <<2, n - layer>>]
ExtractPdf(file, opts) ==
  CASE ~Recognised(file, opts) -> [Extracted(0, "pdf") EXCEPT !.text = PdfText(file.layer, 0)]
    [] Recognised(file, opts) /\ ~opts.installed -> Failed
    [] Recognised(file, opts) /\ opts.installed ->
         [Extracted(0, "pdf+ocr") EXCEPT !.text = PdfText(file.layer, FirstPages(file.pages, opts.ocrMaxPages))]

\* msgreader finds nothing in a Word file, word-extractor throws on a mail.
ExtractMsg(file) == Extracted(IF file.holds = "msg" THEN file.words ELSE 0, "msg")
ExtractDoc(file) == IF file.holds = "doc" THEN Extracted(file.words, "doc") ELSE Failed

\* detectCfbfKind: the streams decide, then the name or the content type.
DetectCfbfKind(file, hint) ==
  CASE file.streams = {"doc"} -> "doc"
    [] file.streams = {"msg"} -> "msg"
    [] OTHER -> IF hint = "doc" THEN "doc" ELSE "msg"

\* extractCfbf: an empty answer is taken for a wrong guess; a throw of either ends
\* in the catch, which returns or throws what the fallback does.
ExtractCfbf(file, hint) ==
  LET msgFirst == DetectCfbfKind(file, hint) = "msg"
      primary == IF msgFirst THEN ExtractMsg(file) ELSE ExtractDoc(file)
      fallback == IF msgFirst THEN ExtractDoc(file) ELSE ExtractMsg(file)
  IN  IF primary.ok /\ (primary.text # <<>> \/ (fallback.ok /\ fallback.text = <<>>))
      THEN primary ELSE fallback

\* The last resort of extractTextFromBytes, with looksLikeText.
ExtractPlain(file, hint) ==
  IF hint = "txt" \/ file.printable THEN Extracted(file.words, "txt") ELSE Unsupported

-----------------------------------------------------------------------------
(* Archives *)

\* The signature plumbing of a signed container, folders and the entry `mimetype` are no
\* payload.
Payloads(file) == {i \in DOMAIN file.entries : file.entries[i].hint \notin {"plumbing", "mimetype"}}

\* extractContainer for one payload: a picture is skipped, bytes that cannot be
\* inflated throw, what the payload's own extraction throws is caught.
ExtractEntry(entry, inner) ==
  CASE entry.hint = "picture" -> Unsupported
    [] entry.hint # "picture" /\ ~entry.inflates -> Thrown("zip")
    [] OTHER -> inner

\* The texts of the payloads, one behind the other.
Behind(read, len) ==
  LET upTo[i \in 0..len] ==
        IF i = 0 THEN <<>>
        ELSE upTo[i - 1] \o IF i \in DOMAIN read /\ read[i].ok
                            THEN [n \in DOMAIN read[i].text |-> <<i>> \o read[i].text[n]]
                            ELSE <<>>
  IN  upTo
Together(read, len) == Behind(read, len)[len]

\* Mutant: a payload whose extraction throws is not listed.
Unlisted(read) == {}

\* skippedParts: the pictures, and what the catch of the loop has seen.
Skipped(read) == {i \in DOMAIN read : ~read[i].ok}

\* extractTextFromBytes reads the entry `mimetype` before it opens an archive, and what
\* readByName throws for it is caught by nobody there.
MimetypeReads(file) ==
  \A i \in DOMAIN file.entries : file.entries[i].hint = "mimetype" => file.entries[i].inflates

\* extractContainer, from what each of its payloads gives.
ExtractContainer(file, read) ==
  LET parts == {i \in Payloads(file) : read[i].ok}
      aborted == ~MimetypeReads(file) \/ \E i \in Payloads(file) : read[i] = Thrown("zip")
  IN  CASE aborted -> Failed
        [] ~aborted /\ parts = {} -> Unsupported
        [] OTHER -> [ok |-> TRUE, format |-> "zip", parts |-> parts, skippedParts |-> Skipped(read),
                     text |-> Together(read, Len(file.entries))]

\* extractTextFromBytes: the bytes decide, the name only among what they leave open.
ExtractBytes(file, hint, opts, container) ==
  CASE file.kind \in {"docx", "xlsx"} -> ExtractOffice(file)
    [] file.kind = "rtf" -> Extracted(file.words, "rtf")
    [] file.kind = "pdf" -> ExtractPdf(file, opts)
    [] file.kind = "cfbf" -> ExtractCfbf(file, hint)
    [] file.kind = "zip" -> container
    [] file.kind = "plain" -> ExtractPlain(file, hint)

\* The recursion, by the depth that is left of MAX_CONTAINER_DEPTH: three archives
\* are opened in one another, and a fourth is refused.
ContainerTooDeep == Unsupported
ExtractInThree(file, hint, opts) == ExtractBytes(file, hint, opts, ContainerTooDeep)
ContainerInTwo(file, opts) ==
  ExtractContainer(file, [i \in Payloads(file) |-> ExtractEntry(file.entries[i],
    ExtractInThree(file.entries[i].file, file.entries[i].hint, opts))])
ExtractInTwo(file, hint, opts) == ExtractBytes(file, hint, opts, ContainerInTwo(file, opts))
ContainerInOne(file, opts) ==
  ExtractContainer(file, [i \in Payloads(file) |-> ExtractEntry(file.entries[i],
    ExtractInTwo(file.entries[i].file, file.entries[i].hint, opts))])
ExtractInOne(file, hint, opts) == ExtractBytes(file, hint, opts, ContainerInOne(file, opts))
Container(file, opts) ==
  ExtractContainer(file, [i \in Payloads(file) |-> ExtractEntry(file.entries[i],
    ExtractInOne(file.entries[i].file, file.entries[i].hint, opts))])
ExtractTextFromBytes(file, hint, opts) == ExtractBytes(file, hint, opts, Container(file, opts))

\* _extractText: the text is cut to maxChars, and says so.
ExtractText(file, hint, opts, maxChars) ==
  LET extracted == ExtractTextFromBytes(file, hint, opts)
      truncated == extracted.ok /\ Len(extracted.text) > maxChars
  IN  [extracted |-> extracted, truncated |-> truncated,
       text |-> CASE ~extracted.ok -> <<>>
                  [] extracted.ok /\ truncated -> SubSeq(extracted.text, 1, maxChars)
                  [] extracted.ok /\ ~truncated -> extracted.text]

-----------------------------------------------------------------------------
(* The download *)

\* request: the limit asked for (0: none), or the default, never above the ceiling.
MaxBytes(request) ==
  LET asked == IF request.maxBytes = 0 THEN request.defaultBytes ELSE request.maxBytes
  IN  IF asked <= request.ceiling THEN asked ELSE request.ceiling

\* How many bytes have come with the first chunks.
Totals(chunks) ==
  LET total[i \in 0..Len(chunks)] == IF i = 0 THEN 0 ELSE total[i - 1] + chunks[i] IN total

\* _readBody: the chunks are added up as they come and the rest is left unread
\* once they are too many; a body without a stream is measured when it is there.
ReadBody(chunks, streamed, limit) ==
  LET total == Totals(chunks)
  IN  [ok |-> IF streamed THEN \A i \in DOMAIN chunks : total[i] <= limit
              ELSE total[Len(chunks)] <= limit,
       bytes |-> total[Len(chunks)]]

\* download: a login page in place of the file, and a declared length above the
\* limit, are refused before anything is read (-1: none is declared).
Download(request, answer) ==
  LET limit == MaxBytes(request)
      body == ReadBody(answer.chunks, answer.streamed, limit)
  IN  CASE answer.loginPage -> Thrown("auth_bounce")
        [] ~answer.loginPage /\ answer.declared > limit -> Thrown("creatio_file_too_large")
        [] OTHER -> IF body.ok THEN [ok |-> TRUE, bytes |-> body.bytes]
                    ELSE Thrown("creatio_file_too_large")

-----------------------------------------------------------------------------
(* What there is to read.  An archive in three others is not opened, so what it *)
(* holds does not matter: here it is empty.  (A mail without a word in it is    *)
(* read or refused, by the extractor that is tried first, and is left out.)     *)

Hint == {"none", "txt", "doc", "picture", "plumbing", "mimetype"}
Document ==
  [kind : {"docx", "xlsx"}, words : Nat, sound : BOOLEAN]
  \cup [kind : {"rtf"}, words : Nat]
  \cup [kind : {"pdf"}, layer : Nat, pages : Nat, long : BOOLEAN]
  \cup [kind : {"cfbf"}, words : Nat, holds : {"doc"}, streams : SUBSET {"doc", "msg"}]
  \cup [kind : {"cfbf"}, words : Nat \ {0}, holds : {"msg"}, streams : SUBSET {"doc", "msg"}]
  \cup [kind : {"plain"}, words : Nat, printable : BOOLEAN]
Archive(files) ==
  [kind : {"zip"}, entries : Seq([file : files, hint : Hint, inflates : BOOLEAN])]
FileInThree == Document \cup [kind : {"zip"}, entries : {<<>>}]
FileInTwo == Document \cup Archive(FileInThree)
FileInOne == Document \cup Archive(FileInTwo)
File == Document \cup Archive(FileInOne)
Options == [ocr : BOOLEAN, installed : BOOLEAN, ocrMaxPages : Nat]

Content ==
  [kind : {"file"}, file : File, hint : Hint, opts : Options, maxChars : Nat]
  \cup [kind : {"download"}, request : [maxBytes : Nat, defaultBytes : Nat, ceiling : Nat],
        answer : [chunks : Seq(Nat), streamed : BOOLEAN, declared : Int, loginPage : BOOLEAN]]

-----------------------------------------------------------------------------
(* What a file says, by the places in it *)

\* Whether a document can be read.  A PDF with a short layer is lost if its pages are
\* wanted and cannot be recognised, and so are the words of its layer.
Readable(file, hint, opts) ==
  CASE file.kind \in {"docx", "xlsx"} -> file.sound
    [] file.kind = "pdf" -> Recognised(file, opts) => opts.installed
    [] file.kind \in {"cfbf", "rtf"} -> TRUE
    [] file.kind = "plain" -> hint = "txt" \/ file.printable

\* What is read of one: its words, or the layer of a PDF and the pages that are recognised.
Readings(file, opts) ==
  IF file.kind # "pdf" THEN {[place |-> <<>>, words |-> file.words]}
  ELSE {[place |-> <<1>>, words |-> file.layer]}
       \cup IF Recognised(file, opts)
            THEN {[place |-> <<2>>, words |-> FirstPages(file.pages, opts.ocrMaxPages)]} ELSE {}

\* The entries that are asked for their text; if one of them, or the `mimetype`, cannot
\* be inflated, the archive is not read at all.
Legible(file) ==
  {i \in DOMAIN file.entries : file.entries[i].hint \notin {"plumbing", "mimetype", "picture"}}
Opens(file) ==
  \A i \in DOMAIN file.entries :
    file.entries[i].hint \notin {"plumbing", "picture"} => file.entries[i].inflates

\* What is delivered, by its places: the readings of the documents that can be read, if
\* each archive around them opens.
Own(file, hint, opts) == IF Readable(file, hint, opts) THEN Readings(file, opts) ELSE {}
Under(i, delivered) == {[place |-> <<i>> \o d.place, words |-> d.words] : d \in delivered}
Inside(Deliver(_, _, _), file, opts) ==
  IF Opens(file)
  THEN UNION {Under(i, Deliver(file.entries[i].file, file.entries[i].hint, opts)) : i \in Legible(file)}
  ELSE {}
DeliveredInThree(file, hint, opts) == IF file.kind = "zip" THEN {} ELSE Own(file, hint, opts)
DeliveredInTwo(file, hint, opts) ==
  IF file.kind = "zip" THEN Inside(DeliveredInThree, file, opts) ELSE Own(file, hint, opts)
DeliveredInOne(file, hint, opts) ==
  IF file.kind = "zip" THEN Inside(DeliveredInTwo, file, opts) ELSE Own(file, hint, opts)
Delivered(file, hint, opts) ==
  IF file.kind = "zip" THEN Inside(DeliveredInOne, file, opts) ELSE Own(file, hint, opts)

\* Their words, and the order of reading.
WordsOf(delivered) == UNION {{Append(d.place, n) : n \in 1..d.words} : d \in delivered}
Precedes(p, q) ==
  \E k \in DOMAIN p \cap DOMAIN q : p[k] < q[k] /\ \A j \in 1..k - 1 : p[j] = q[j]

\* The text of a file is what its documents say, each word of each reading once and in
\* order, down to three archives deep, whatever else is in it.  It fails only when there
\* is nothing to deliver: no document that can be read (which a PDF with a short layer is
\* not, if its pages are wanted and cannot be recognised) in archives that all open.  And
\* each payload of the archive is either a part or a skipped part, and a part if it has
\* anything to deliver.
FileMeans(file, hint, opts, maxChars) ==
  LET result == ExtractText(file, hint, opts, maxChars)
      delivered == Delivered(file, hint, opts)
      all == result.extracted
  IN  /\ all.ok <=> delivered # {}
      /\ all.ok =>
           /\ {all.text[n] : n \in DOMAIN all.text} = WordsOf(delivered)
           /\ \A m, n \in DOMAIN all.text : m < n => Precedes(all.text[m], all.text[n])
           /\ Len(result.text) <= maxChars /\ Len(result.text) <= Len(all.text)
           /\ \A n \in DOMAIN result.text : result.text[n] = all.text[n]
           /\ ~result.truncated => result.text = all.text
           /\ result.truncated => Len(result.text) = maxChars /\ Len(all.text) > maxChars
      /\ all.ok /\ file.kind = "zip" =>
           /\ all.parts \cup all.skippedParts = Payloads(file)
           /\ all.parts \cap all.skippedParts = {}
           /\ all.parts = {d.place[1] : d \in delivered}

\* A download is the whole body, within the limits, and never the login page.
DownloadMeans(request, answer) ==
  LET size == Totals(answer.chunks)[Len(answer.chunks)]
      result == Download(request, answer)
  IN  result.ok => /\ result.bytes = size /\ ~answer.loginPage
                   /\ size <= request.ceiling
                   /\ request.maxBytes # 0 => size <= request.maxBytes

ContentMeans(content) ==
  CASE content.kind = "file" ->
         FileMeans(content.file, content.hint, content.opts, content.maxChars)
    [] content.kind = "download" -> DownloadMeans(content.request, content.answer)
=============================================================================
