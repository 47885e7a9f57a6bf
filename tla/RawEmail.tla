------------------------------ MODULE RawEmail ------------------------------
(***************************************************************************)
(* GoogleMailProvider.createRawEmail (common/gcp/mail/mail-provider.ts):   *)
(* the MIME text of an e-mail.  The text is a sequence of lines; a line is *)
(* a tuple whose first member tells its kind.  Names and addresses are     *)
(* opaque, and base64 is left out: it is undone by whoever reads the mail. *)
(*                                                                         *)
(* The boundary between the parts is the fixed word "boundary", so a line  *)
(* of the content can be one.                                              *)
(***************************************************************************)
EXTENDS Sequences, SequencesExt

CONSTANT Absent  \* a field of the e-mail that is not given

Blank     == <<"">>
Delimiter == <<"--boundary">>
Close     == <<"--boundary--">>

Given(v) == v # Absent

\* emailMessage.from, .to, and every attachment's data and filename: without
\* one of them createRawEmail throws "Error creating raw email".
Complete(m) ==
  /\ Given(m.from)
  /\ Given(m.to) /\ m.to # <<>>
  /\ Given(m.attachments) =>
       \A i \in DOMAIN m.attachments :
         Given(m.attachments[i].data) /\ Given(m.attachments[i].filename)

Optional(name, v) == IF Given(v) THEN << <<name, v>> >> ELSE <<>>

\* The headers, each on its line, and the blank line that ends them.
Headers(m) ==
  << <<"Content-Type", "multipart/mixed">>, <<"From", m.from>>, <<"To", m.to>> >>
  \o Optional("Cc", m.cc)
  \o Optional("Bcc", m.bcc)
  \o << <<"Subject", IF Given(m.subject) THEN m.subject ELSE "">>, Blank >>

\* Text and HTML, where given, and the attachments, in this order.
BodyPart(type, v) == IF Given(v) THEN << << <<"Content-Type", type>>, Blank, v, Blank >> >> ELSE <<>>
AttachmentPart(a) ==
  << <<"Content-Type", a.filename>>, <<"Content-Disposition", a.filename>>,
     <<"Content-Transfer-Encoding", "base64">>, Blank, a.data, Blank >>

Parts(m) ==
  BodyPart("text/plain", m.text)
  \o BodyPart("text/html", m.html)
  \o (IF Given(m.attachments)
      THEN [i \in DOMAIN m.attachments |-> AttachmentPart(m.attachments[i])] ELSE <<>>)

\* Variant: the delimiter that opens the first part is left out.
CreateRawEmailUnopened(m) ==
  Headers(m) \o FlattenSeq([i \in DOMAIN Parts(m) |-> Append(Parts(m)[i], Delimiter)])
  \o <<Close>>

\* A delimiter opens the first part and ends every part.
CreateRawEmail(m) ==
  Headers(m) \o <<Delimiter>>
  \o FlattenSeq([i \in DOMAIN Parts(m) |-> Append(Parts(m)[i], Delimiter)])
  \o <<Close>>

-----------------------------------------------------------------------------
(* What a reader of the text makes of it: the standard's rule, against      *)
(* which the construction above is checked.                                 *)

\* The lines that separate parts, in the order of the text.
Marks(raw) == {i \in DOMAIN raw : raw[i] \in {Delimiter, Close}}

\* A part is what stands between one mark and the next.
PartsRead(raw) ==
  LET marks == SetToSortSeq(Marks(raw), <)
  IN [k \in 1 .. Len(marks) - 1 |-> SubSeq(raw, marks[k] + 1, marks[k + 1] - 1)]

\* Everything up to the first blank line is a header.
HeadersRead(raw) == SubSeq(raw, 1, CHOOSE i \in DOMAIN raw :
                                     raw[i] = Blank /\ \A j \in 1 .. i - 1 : raw[j] # Blank)

\* No line of the content is a mark.
Unmarked(m) ==
  \A i \in DOMAIN Parts(m) : \A j \in DOMAIN Parts(m)[i] : Parts(m)[i][j] \notin {Delimiter, Close}
=============================================================================
