------------------------- MODULE MCMessageFeedback -------------------------
(***************************************************************************)
(* Instances of MessageFeedback: a teacher and a student that register, as *)
(* RegisterTeacher and RegisterStudent send their messages.                *)
(***************************************************************************)
EXTENDS MessageFeedback, TLC

CONSTANTS teacher, student, m1, m2, m3

\* The teacher gets m1 (RegisterSuccess); the registration of the student sends
\* m2 (StudentConnected) to the teacher and m3 (RegisterSuccess) to the student.
BothRegister == (teacher :> <<m1>>) @@ (student :> <<m2, m3>>)
OneReceiver == (m1 :> {teacher}) @@ (m2 :> {teacher}) @@ (m3 :> {student})

\* The teacher registered long ago.
StudentRegisters == (teacher :> << >>) @@ (student :> <<m2, m3>>)
OneReceiverOfTwo == (m2 :> {teacher}) @@ (m3 :> {student})

\* The teacher may name the message of the student, before and after it exists.
TeacherMeddles == {<<teacher, m3>>}

\* A message with two receivers, which MessageHistory allows.
TwoReceivers == (m2 :> {teacher, student}) @@ (m3 :> {student})

=============================================================================
