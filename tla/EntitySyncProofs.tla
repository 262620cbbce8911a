-------------------------- MODULE EntitySyncProofs --------------------------
(***************************************************************************)
(* Theorems about EntitySync for every set of records and what they refer  *)
(* to, and about EntitySync beside CrmMirror.                              *)
(***************************************************************************)
EXTENDS MCCrmMirror, CrmMirrorProofs, SequenceTheorems, WellFoundedInduction

-----------------------------------------------------------------------------
(* The program of a run, statement by statement.                           *)

Listing ==
  << Do("details"), Put("job", JobRow), Do("people"),
     Put("customer", CustomerRow), Put("location", LocationRow), Put("contact", ContactRow),
     Put("user", UserRow), Put("project", ProjectRow), Put("office", OfficeRow),
     Put("tag", TagRow),
     Do("visits"), Do("prune"), Do("cancel"),
     Put("visit", VisitRow), Put("technician", TechnicianRow), Put("office", OfficeRow),
     Put("line", LineRow), Put("request", RequestRow), Do("comments"),
     Put("comment", CommentRow),
     Do("begin"), RowPass("customer", CustomerRefs, TRUE), Do("read"),
     RowPass("contact", ContactRefs, TRUE), RowPass("office", OfficeRefs, FALSE),
     RowPass("tag", TagRefs, FALSE), RowPass("location", LocationRefs, TRUE),
     LinkPass("location", {"office"}, FALSE), LinkPass("location", {"tag"}, FALSE),
     LinkPass("contact", {"location"}, FALSE), LinkPass("contact", {"customer"}, FALSE),
     RowPass("technician", TechnicianRefs, FALSE), RowPass("user", UserRefs, FALSE),
     RowPass("project", ProjectRefs, FALSE), RowPass("job", JobRefs, TRUE), Do("reread"),
     RowPass("visit", VisitRefs, TRUE), LinkPass("visit", {"technician"}, TRUE),
     LinkPass("visit", {"office"}, TRUE), LinkPass("job", {"office"}, FALSE),
     LinkPass("job", {"tag"}, FALSE), RowPass("comment", CommentRefs, TRUE),
     RowPass("line", LineRefs, FALSE), RowPass("contract", ContractRefs, FALSE),
     RowPass("job", JobRefs, TRUE), RowPass("request", RequestRefs, TRUE),
     LinkPass("request", {"technician"}, FALSE), LinkPass("request", ServiceRefs, FALSE),
     Do("finish") >>

Code == {Listing[k] : k \in 1 .. 49}

\* A piece of the program: it is in the listing from statement o + 1 on.
Lists(s, o, n) == s \in Seq(Code) /\ Len(s) = n /\ \A k \in 1 .. n : s[k] = Listing[o + k]

\* Two pieces of the program, one after the other.
LEMMA ListsOn ==
  ASSUME NEW o \in Nat, NEW n \in Nat, NEW m \in Nat, NEW s, Lists(s, o, n),
         NEW p, p = o + n, NEW t, Lists(t, p, m), NEW q, q = n + m
  PROVE  Lists(s \o t, o, q)
<1>1. /\ s \in Seq(Code) /\ Len(s) = n /\ \A k \in 1 .. n : s[k] = Listing[o + k]
      /\ t \in Seq(Code) /\ Len(t) = m /\ \A k \in 1 .. m : t[k] = Listing[o + n + k]
  BY DEF Lists
<1>2. /\ s \o t \in Seq(Code) /\ Len(s \o t) = n + m
      /\ \A k \in 1 .. n + m : (s \o t)[k] = IF k <= n THEN s[k] ELSE t[k - n]
  <2>1. /\ s \o t \in Seq(Code) /\ Len(s \o t) = Len(s) + Len(t)
        /\ \A k \in 1 .. Len(s) + Len(t) :
             (s \o t)[k] = IF k <= Len(s) THEN s[k] ELSE t[k - Len(s)]
    BY <1>1, ConcatProperties
  <2> QED BY <1>1, <2>1
<1>3. ASSUME NEW k \in 1 .. n + m PROVE (s \o t)[k] = Listing[o + k]
  <2>1. CASE k <= n BY <1>1, <1>2, <2>1
  <2>2. CASE ~(k <= n)
    <3>1. k - n \in 1 .. m /\ o + n + (k - n) = o + k BY <2>2
    <3> QED BY <1>1, <1>2, <2>2, <3>1
  <2> QED BY <2>1, <2>2
<1> QED BY <1>2, <1>3 DEF Lists

\* A statement is a piece of the program.
LEMMA ListsOne ==
  ASSUME NEW o \in 0 .. 48, NEW i, Listing[o + 1] = i
  PROVE  Lists(<<i>>, o, 1)
<1>1. i \in Code
  <2>1. o + 1 \in 1 .. 49 OBVIOUS
  <2> QED BY <2>1 DEF Code
<1> HIDE DEF Code
<1>2. <<i>> \in Seq(Code) /\ Len(<<i>>) = 1 /\ <<i>>[1] = i BY <1>1
<1>3. \A k \in 1 .. 1 : k = 1 OBVIOUS
<1> QED BY <1>2, <1>3 DEF Lists

\* What the listing has before the passes, number by number.
LEMMA Listed ==
  /\ Listing[1] = Do("details") /\ Listing[2] = Put("job", JobRow) /\ Listing[3] = Do("people")
  /\ Listing[4] = Put("customer", CustomerRow) /\ Listing[5] = Put("location", LocationRow)
  /\ Listing[6] = Put("contact", ContactRow) /\ Listing[7] = Put("user", UserRow)
  /\ Listing[8] = Put("project", ProjectRow) /\ Listing[9] = Put("office", OfficeRow)
  /\ Listing[10] = Put("tag", TagRow) /\ Listing[11] = Do("visits")
  /\ Listing[12] = Do("prune") /\ Listing[13] = Do("cancel")
  /\ Listing[14] = Put("visit", VisitRow) /\ Listing[15] = Put("technician", TechnicianRow)
  /\ Listing[16] = Put("office", OfficeRow) /\ Listing[17] = Put("line", LineRow)
  /\ Listing[18] = Put("request", RequestRow) /\ Listing[19] = Do("comments")
  /\ Listing[20] = Put("comment", CommentRow)
BY DEF Listing

\* What the listing has from the watermark on, number by number.
LEMMA PassesListed ==
  /\ Listing[21] = Do("begin") /\ Listing[22] = RowPass("customer", CustomerRefs, TRUE)
  /\ Listing[23] = Do("read") /\ Listing[24] = RowPass("contact", ContactRefs, TRUE)
  /\ Listing[25] = RowPass("office", OfficeRefs, FALSE)
  /\ Listing[26] = RowPass("tag", TagRefs, FALSE)
  /\ Listing[27] = RowPass("location", LocationRefs, TRUE)
  /\ Listing[28] = LinkPass("location", {"office"}, FALSE)
  /\ Listing[29] = LinkPass("location", {"tag"}, FALSE)
  /\ Listing[30] = LinkPass("contact", {"location"}, FALSE)
  /\ Listing[31] = LinkPass("contact", {"customer"}, FALSE)
  /\ Listing[32] = RowPass("technician", TechnicianRefs, FALSE)
  /\ Listing[33] = RowPass("user", UserRefs, FALSE)
  /\ Listing[34] = RowPass("project", ProjectRefs, FALSE)
  /\ Listing[35] = RowPass("job", JobRefs, TRUE) /\ Listing[36] = Do("reread")
  /\ Listing[37] = RowPass("visit", VisitRefs, TRUE)
  /\ Listing[38] = LinkPass("visit", {"technician"}, TRUE)
  /\ Listing[39] = LinkPass("visit", {"office"}, TRUE)
  /\ Listing[40] = LinkPass("job", {"office"}, FALSE)
  /\ Listing[41] = LinkPass("job", {"tag"}, FALSE)
  /\ Listing[42] = RowPass("comment", CommentRefs, TRUE)
  /\ Listing[43] = RowPass("line", LineRefs, FALSE)
  /\ Listing[44] = RowPass("contract", ContractRefs, FALSE)
  /\ Listing[45] = RowPass("job", JobRefs, TRUE)
  /\ Listing[46] = RowPass("request", RequestRefs, TRUE)
  /\ Listing[47] = LinkPass("request", {"technician"}, FALSE)
  /\ Listing[48] = LinkPass("request", ServiceRefs, FALSE) /\ Listing[49] = Do("finish")
BY DEF Listing

\* The upserts of what jobs refer to are statements 4 to 10.
LEMMA FanOutListed == Lists(FanOut, 3, 7)
<1> DEFINE n0 == PutCustomers
           n1 == n0 \o PutLocations
           n2 == n1 \o PutContacts
           n3 == n2 \o PutUsers
           n4 == n3 \o PutProjects
           n5 == n4 \o PutOffices
           n6 == n5 \o PutTags
<1>1. /\ Lists(PutCustomers, 3, 1)
      /\ Lists(PutLocations, 4, 1)
      /\ Lists(PutContacts, 5, 1)
      /\ Lists(PutUsers, 6, 1)
      /\ Lists(PutProjects, 7, 1)
      /\ Lists(PutOffices, 8, 1)
      /\ Lists(PutTags, 9, 1)
  <2>1. /\ PutCustomers = <<Listing[4]>>
        /\ PutLocations = <<Listing[5]>>
        /\ PutContacts = <<Listing[6]>>
        /\ PutUsers = <<Listing[7]>>
        /\ PutProjects = <<Listing[8]>>
        /\ PutOffices = <<Listing[9]>>
        /\ PutTags = <<Listing[10]>>
    BY Listed DEF PutCustomers, PutLocations, PutContacts, PutUsers, PutProjects, PutOffices, PutTags
  <2> QED BY <2>1, ListsOne
<1>2. Lists(n1, 3, 2)
  <2> QED BY <1>1, ListsOn
<1>3. Lists(n2, 3, 3)
  <2> HIDE DEF n1
  <2> QED BY <1>1, <1>2, ListsOn
<1>4. Lists(n3, 3, 4)
  <2> HIDE DEF n2
  <2> QED BY <1>1, <1>3, ListsOn
<1>5. Lists(n4, 3, 5)
  <2> HIDE DEF n3
  <2> QED BY <1>1, <1>4, ListsOn
<1>6. Lists(n5, 3, 6)
  <2> HIDE DEF n4
  <2> QED BY <1>1, <1>5, ListsOn
<1>7. Lists(n6, 3, 7)
  <2> HIDE DEF n5
  <2> QED BY <1>1, <1>6, ListsOn
<1> QED BY <1>7 DEF FanOut

\* The upserts of what visits bring are statements 14 to 18.
LEMMA VisitFanOutListed == Lists(VisitFanOut, 13, 5)
<1> DEFINE n0 == PutVisits
           n1 == n0 \o PutTechnicians
           n2 == n1 \o PutOffices
           n3 == n2 \o PutLines
           n4 == n3 \o PutRequests
<1>1. /\ Lists(PutVisits, 13, 1)
      /\ Lists(PutTechnicians, 14, 1)
      /\ Lists(PutOffices, 15, 1)
      /\ Lists(PutLines, 16, 1)
      /\ Lists(PutRequests, 17, 1)
  <2>1. /\ PutVisits = <<Listing[14]>>
        /\ PutTechnicians = <<Listing[15]>>
        /\ PutOffices = <<Listing[16]>>
        /\ PutLines = <<Listing[17]>>
        /\ PutRequests = <<Listing[18]>>
    BY Listed DEF PutVisits, PutTechnicians, PutOffices, PutLines, PutRequests
  <2> QED BY <2>1, ListsOne
<1>2. Lists(n1, 13, 2)
  <2> QED BY <1>1, ListsOn
<1>3. Lists(n2, 13, 3)
  <2> HIDE DEF n1
  <2> QED BY <1>1, <1>2, ListsOn
<1>4. Lists(n3, 13, 4)
  <2> HIDE DEF n2
  <2> QED BY <1>1, <1>3, ListsOn
<1>5. Lists(n4, 13, 5)
  <2> HIDE DEF n3
  <2> QED BY <1>1, <1>4, ListsOn
<1> QED BY <1>5 DEF VisitFanOut

\* Listing, pruning and cancelling visits are statements 11 to 13.
LEMMA PruneListed == Lists(<<Do("visits"), Do("prune"), Do("cancel")>>, 10, 3)
<1> DEFINE s == <<Do("visits"), Do("prune"), Do("cancel")>>
<1>1. \A k \in 11 .. 13 : Listing[k] \in Code BY DEF Code
<1>2. Do("visits") \in Code /\ Do("prune") \in Code /\ Do("cancel") \in Code
  BY <1>1, Listed
<1> HIDE DEF Code
<1>3. s \in Seq(Code) /\ Len(s) = 3 /\ s[1] = Do("visits") /\ s[2] = Do("prune") /\ s[3] = Do("cancel")
  BY <1>2
<1> HIDE DEF s
<1>4. \A k \in 1 .. 3 : s[k] = Listing[10 + k] BY <1>3, Listed
<1>5. Lists(s, 10, 3) BY <1>3, <1>4 DEF Lists
<1> QED BY <1>5 DEF s

BeforeVisits == <<Do("details")>> \o PutJobs \o <<Do("people")>> \o FanOut
AtVisits     == Len(BeforeVisits) + 1
AtBegin      == Len(SyncProgram) + 1
AtFinish     == Len(Program)

\* What a run does before it lists visits is statements 1 to 10.
LEMMA BeforeListed == Lists(BeforeVisits, 0, 10)
<1> DEFINE n0 == <<Do("details")>>
           n1 == n0 \o PutJobs
           n2 == n1 \o <<Do("people")>>
           n3 == n2 \o FanOut
<1>1. /\ Lists(<<Do("details")>>, 0, 1)
      /\ Lists(PutJobs, 1, 1)
      /\ Lists(<<Do("people")>>, 2, 1)
  <2>1. /\ <<Do("details")>> = <<Listing[1]>>
        /\ PutJobs = <<Listing[2]>>
        /\ <<Do("people")>> = <<Listing[3]>>
    BY Listed DEF PutJobs
  <2> QED BY <2>1, ListsOne
<1>2. Lists(n1, 0, 2)
  <2> QED BY <1>1, ListsOn
<1>3. Lists(n2, 0, 3)
  <2> HIDE DEF n1
  <2> QED BY <1>1, <1>2, ListsOn
<1>4. Lists(n3, 0, 10)
  <2> HIDE DEF n2
  <2> QED BY <1>3, FanOutListed, ListsOn
<1> QED BY <1>4 DEF BeforeVisits

\* What a run fetches and stores is statements 1 to 20.
LEMMA SyncListed == Lists(SyncProgram, 0, 20)
<1> DEFINE n3 == BeforeVisits
           n4 == n3 \o <<Do("visits"), Do("prune"), Do("cancel")>>
           n5 == n4 \o VisitFanOut
           n6 == n5 \o <<Do("comments")>>
           n7 == n6 \o PutComments
<1>1. Lists(<<Do("comments")>>, 18, 1) /\ Lists(PutComments, 19, 1)
  <2>1. <<Do("comments")>> = <<Listing[19]>> /\ PutComments = <<Listing[20]>>
    BY Listed DEF PutComments
  <2> QED BY <2>1, ListsOne
<1>2. Lists(n4, 0, 13)
  <2> HIDE DEF n3
  <2> QED BY BeforeListed, PruneListed, ListsOn DEF n3
<1>3. Lists(n5, 0, 18)
  <2> HIDE DEF n4
  <2> QED BY <1>2, VisitFanOutListed, ListsOn
<1>4. Lists(n6, 0, 19)
  <2> HIDE DEF n5
  <2> QED BY <1>1, <1>3, ListsOn
<1>5. Lists(n7, 0, 20)
  <2> HIDE DEF n6
  <2> QED BY <1>1, <1>4, ListsOn
<1> QED BY <1>5 DEF SyncProgram, BeforeVisits

\* The links of contacts are statements 30 and 31.
LEMMA ContactLinksListed == Lists(ContactLinks, 29, 2)
<1> DEFINE a == LinkPass("contact", {"location"}, FALSE)
           b == LinkPass("contact", {"customer"}, FALSE)
<1>1. Listing[30] = a /\ Listing[31] = b /\ ContactLinks = <<a, b>>
  BY PassesListed DEF ContactLinks
<1>2. Listing[30] \in Code /\ Listing[31] \in Code BY DEF Code
<1> HIDE DEF Code, a, b
<1>3. a \in Code /\ b \in Code BY <1>1, <1>2
<1>4. <<a, b>> \in Seq(Code) /\ Len(<<a, b>>) = 2 /\ <<a, b>>[1] = a /\ <<a, b>>[2] = b BY <1>3
<1>5. \A k \in 1 .. 2 : <<a, b>>[k] = Listing[29 + k] BY <1>1, <1>4
<1> QED BY <1>1, <1>4, <1>5 DEF Lists

\* The normalizing of a run is statements 21 to 49.
LEMMA NormalizeListed == Lists(NormalizeProgram, 20, 29)
<1> DEFINE n0 == <<Do("begin")>>
           n1 == n0 \o CustomerPass
           n2 == n1 \o <<Do("read")>>
           n3 == n2 \o ContactPass
           n4 == n3 \o OfficePass
           n5 == n4 \o TagPass
           n6 == n5 \o LocationPass
           n7 == n6 \o LocationOffices
           n8 == n7 \o LocationTags
           n9 == n8 \o ContactLinks
           n10 == n9 \o TechnicianPass
           n11 == n10 \o UserPass
           n12 == n11 \o ProjectPass
           n13 == n12 \o JobPass
           n14 == n13 \o <<Do("reread")>>
           n15 == n14 \o VisitPass
           n16 == n15 \o VisitTeams
           n17 == n16 \o VisitOffices
           n18 == n17 \o JobOffices
           n19 == n18 \o JobTags
           n20 == n19 \o CommentPass
           n21 == n20 \o LinePass
           n22 == n21 \o ContractPass
           n23 == n22 \o JobPass
           n24 == n23 \o RequestPass
           n25 == n24 \o RequestTechs
           n26 == n25 \o VisitServices
           n27 == n26 \o <<Do("finish")>>
<1>1. /\ Lists(<<Do("begin")>>, 20, 1)
      /\ Lists(CustomerPass, 21, 1)
      /\ Lists(<<Do("read")>>, 22, 1)
      /\ Lists(ContactPass, 23, 1)
      /\ Lists(OfficePass, 24, 1)
      /\ Lists(TagPass, 25, 1)
      /\ Lists(LocationPass, 26, 1)
      /\ Lists(LocationOffices, 27, 1)
      /\ Lists(LocationTags, 28, 1)
      /\ Lists(TechnicianPass, 31, 1)
      /\ Lists(UserPass, 32, 1)
      /\ Lists(ProjectPass, 33, 1)
      /\ Lists(JobPass, 34, 1)
      /\ Lists(<<Do("reread")>>, 35, 1)
      /\ Lists(VisitPass, 36, 1)
      /\ Lists(VisitTeams, 37, 1)
      /\ Lists(VisitOffices, 38, 1)
      /\ Lists(JobOffices, 39, 1)
      /\ Lists(JobTags, 40, 1)
      /\ Lists(CommentPass, 41, 1)
      /\ Lists(LinePass, 42, 1)
      /\ Lists(ContractPass, 43, 1)
      /\ Lists(JobPass, 44, 1)
      /\ Lists(RequestPass, 45, 1)
      /\ Lists(RequestTechs, 46, 1)
      /\ Lists(VisitServices, 47, 1)
      /\ Lists(<<Do("finish")>>, 48, 1)
  <2>1. /\ <<Do("begin")>> = <<Listing[21]>>
        /\ CustomerPass = <<Listing[22]>>
        /\ <<Do("read")>> = <<Listing[23]>>
        /\ ContactPass = <<Listing[24]>>
        /\ OfficePass = <<Listing[25]>>
        /\ TagPass = <<Listing[26]>>
        /\ LocationPass = <<Listing[27]>>
    BY PassesListed DEF CustomerPass, ContactPass, OfficePass, TagPass, LocationPass
  <2>2. /\ LocationOffices = <<Listing[28]>>
        /\ LocationTags = <<Listing[29]>>
        /\ TechnicianPass = <<Listing[32]>>
        /\ UserPass = <<Listing[33]>>
        /\ ProjectPass = <<Listing[34]>>
        /\ JobPass = <<Listing[35]>>
        /\ <<Do("reread")>> = <<Listing[36]>>
    BY PassesListed DEF LocationOffices, LocationTags, TechnicianPass, UserPass, ProjectPass, JobPass
  <2>3. /\ VisitPass = <<Listing[37]>>
        /\ VisitTeams = <<Listing[38]>>
        /\ VisitOffices = <<Listing[39]>>
        /\ JobOffices = <<Listing[40]>>
        /\ JobTags = <<Listing[41]>>
        /\ CommentPass = <<Listing[42]>>
        /\ LinePass = <<Listing[43]>>
    BY PassesListed DEF VisitPass, VisitTeams, VisitOffices, JobOffices, JobTags, CommentPass, LinePass
  <2>4. /\ ContractPass = <<Listing[44]>>
        /\ JobPass = <<Listing[45]>>
        /\ RequestPass = <<Listing[46]>>
        /\ RequestTechs = <<Listing[47]>>
        /\ VisitServices = <<Listing[48]>>
        /\ <<Do("finish")>> = <<Listing[49]>>
    BY PassesListed DEF ContractPass, JobPass, RequestPass, RequestTechs, VisitServices
  <2> QED BY <2>1, <2>2, <2>3, <2>4, ListsOne
<1>2. Lists(n1, 20, 2)
  <2> QED BY <1>1, ListsOn
<1>3. Lists(n2, 20, 3)
  <2> HIDE DEF n1
  <2> QED BY <1>1, <1>2, ListsOn
<1>4. Lists(n3, 20, 4)
  <2> HIDE DEF n2
  <2> QED BY <1>1, <1>3, ListsOn
<1>5. Lists(n4, 20, 5)
  <2> HIDE DEF n3
  <2> QED BY <1>1, <1>4, ListsOn
<1>6. Lists(n5, 20, 6)
  <2> HIDE DEF n4
  <2> QED BY <1>1, <1>5, ListsOn
<1>7. Lists(n6, 20, 7)
  <2> HIDE DEF n5
  <2> QED BY <1>1, <1>6, ListsOn
<1>8. Lists(n7, 20, 8)
  <2> HIDE DEF n6
  <2> QED BY <1>1, <1>7, ListsOn
<1>9. Lists(n8, 20, 9)
  <2> HIDE DEF n7
  <2> QED BY <1>1, <1>8, ListsOn
<1>10. Lists(n9, 20, 11)
  <2> HIDE DEF n8
  <2> QED BY <1>1, <1>9, ContactLinksListed, ListsOn
<1>11. Lists(n10, 20, 12)
  <2> HIDE DEF n9
  <2> QED BY <1>1, <1>10, ListsOn
<1>12. Lists(n11, 20, 13)
  <2> HIDE DEF n10
  <2> QED BY <1>1, <1>11, ListsOn
<1>13. Lists(n12, 20, 14)
  <2> HIDE DEF n11
  <2> QED BY <1>1, <1>12, ListsOn
<1>14. Lists(n13, 20, 15)
  <2> HIDE DEF n12
  <2> QED BY <1>1, <1>13, ListsOn
<1>15. Lists(n14, 20, 16)
  <2> HIDE DEF n13
  <2> QED BY <1>1, <1>14, ListsOn
<1>16. Lists(n15, 20, 17)
  <2> HIDE DEF n14
  <2> QED BY <1>1, <1>15, ListsOn
<1>17. Lists(n16, 20, 18)
  <2> HIDE DEF n15
  <2> QED BY <1>1, <1>16, ListsOn
<1>18. Lists(n17, 20, 19)
  <2> HIDE DEF n16
  <2> QED BY <1>1, <1>17, ListsOn
<1>19. Lists(n18, 20, 20)
  <2> HIDE DEF n17
  <2> QED BY <1>1, <1>18, ListsOn
<1>20. Lists(n19, 20, 21)
  <2> HIDE DEF n18
  <2> QED BY <1>1, <1>19, ListsOn
<1>21. Lists(n20, 20, 22)
  <2> HIDE DEF n19
  <2> QED BY <1>1, <1>20, ListsOn
<1>22. Lists(n21, 20, 23)
  <2> HIDE DEF n20
  <2> QED BY <1>1, <1>21, ListsOn
<1>23. Lists(n22, 20, 24)
  <2> HIDE DEF n21
  <2> QED BY <1>1, <1>22, ListsOn
<1>24. Lists(n23, 20, 25)
  <2> HIDE DEF n22
  <2> QED BY <1>1, <1>23, ListsOn
<1>25. Lists(n24, 20, 26)
  <2> HIDE DEF n23
  <2> QED BY <1>1, <1>24, ListsOn
<1>26. Lists(n25, 20, 27)
  <2> HIDE DEF n24
  <2> QED BY <1>1, <1>25, ListsOn
<1>27. Lists(n26, 20, 28)
  <2> HIDE DEF n25
  <2> QED BY <1>1, <1>26, ListsOn
<1>28. Lists(n27, 20, 29)
  <2> HIDE DEF n26
  <2> QED BY <1>1, <1>27, ListsOn
<1> QED BY <1>28 DEF NormalizeProgram

\* The program is the listing.
LEMMA ProgramListed ==
  /\ AtVisits = 11 /\ AtBegin = 21 /\ AtFinish = 49
  /\ \A k \in 1 .. 49 : Program[k] = Listing[k]
<1>1. Lists(Program, 0, 49) BY SyncListed, NormalizeListed, ListsOn DEF Program
<1>2. AtFinish = 49 BY <1>1 DEF Lists, AtFinish
<1>3. AtBegin = 21 BY SyncListed DEF Lists, AtBegin
<1>4. \A k \in 1 .. 49 : Program[k] = Listing[k]
  <2>1. \A k \in 1 .. 49 : Program[k] = Listing[0 + k] BY <1>1 DEF Lists
  <2>2. \A k \in 1 .. 49 : 0 + k = k OBVIOUS
  <2> QED BY <2>1, <2>2
<1>5. AtVisits = 11 BY BeforeListed DEF Lists, AtVisits
<1> QED BY <1>2, <1>3, <1>4, <1>5

-----------------------------------------------------------------------------
(* The statements of a run, by kind.                                       *)

Kinds == {"none", "customer", "location", "contact", "user", "project", "office", "tag", "job",
          "visit", "technician", "line", "request", "comment", "contract"}

\* What is fetched and stored before the visits are, what is after them, and
\* the passes.  No row of a job is stored after the visits; and a contact has no
\* foreign keys.
BeforeCode == [do : {"details", "people", "put"}, kind : Kinds, to : SUBSET Kinds,
               filtered : {FALSE}]
AfterCode  == [do : {"put", "comments"}, kind : Kinds \ {"job"}, to : SUBSET Kinds,
               filtered : {FALSE}]
PassCode   == {i \in [do : {"read", "reread", "rows", "links"}, kind : Kinds, to : SUBSET Kinds,
                      filtered : BOOLEAN] :
                 i.do = "rows" /\ i.kind = "contact" => i.to = {}}

\* Every statement is of the kind its part of the program has.
LEMMA CodeListed ==
  /\ \A k \in 1 .. 10 : Listing[k] \in BeforeCode
  /\ \A k \in 14 .. 20 : Listing[k] \in AfterCode
  /\ \A k \in 22 .. 48 : Listing[k] \in PassCode
<1>1. /\ Do("details") \in BeforeCode /\ Do("people") \in BeforeCode
      /\ Put("job", JobRow) \in BeforeCode
      /\ Put("customer", CustomerRow) \in BeforeCode /\ Put("location", LocationRow) \in BeforeCode
      /\ Put("contact", ContactRow) \in BeforeCode /\ Put("user", UserRow) \in BeforeCode
      /\ Put("project", ProjectRow) \in BeforeCode /\ Put("office", OfficeRow) \in BeforeCode
      /\ Put("tag", TagRow) \in BeforeCode
  BY DEF BeforeCode, Kinds, Do, Put, JobRow, CustomerRow, LocationRow, ContactRow, UserRow,
         ProjectRow, OfficeRow, TagRow
<1>2. /\ Do("comments") \in AfterCode
      /\ Put("visit", VisitRow) \in AfterCode /\ Put("technician", TechnicianRow) \in AfterCode
      /\ Put("office", OfficeRow) \in AfterCode /\ Put("line", LineRow) \in AfterCode
      /\ Put("request", RequestRow) \in AfterCode /\ Put("comment", CommentRow) \in AfterCode
  BY DEF AfterCode, Kinds, Do, Put, VisitRow, TechnicianRow, OfficeRow, LineRow, RequestRow,
         CommentRow
<1>3. /\ RowPass("customer", CustomerRefs, TRUE) \in PassCode /\ Do("read") \in PassCode
      /\ RowPass("contact", ContactRefs, TRUE) \in PassCode
      /\ RowPass("office", OfficeRefs, FALSE) \in PassCode
      /\ RowPass("tag", TagRefs, FALSE) \in PassCode
      /\ RowPass("location", LocationRefs, TRUE) \in PassCode
      /\ LinkPass("location", {"office"}, FALSE) \in PassCode
      /\ LinkPass("location", {"tag"}, FALSE) \in PassCode
      /\ LinkPass("contact", {"location"}, FALSE) \in PassCode
      /\ LinkPass("contact", {"customer"}, FALSE) \in PassCode
      /\ RowPass("technician", TechnicianRefs, FALSE) \in PassCode
      /\ RowPass("user", UserRefs, FALSE) \in PassCode
      /\ RowPass("project", ProjectRefs, FALSE) \in PassCode
      /\ RowPass("job", JobRefs, TRUE) \in PassCode /\ Do("reread") \in PassCode
      /\ RowPass("visit", VisitRefs, TRUE) \in PassCode
      /\ LinkPass("visit", {"technician"}, TRUE) \in PassCode
      /\ LinkPass("visit", {"office"}, TRUE) \in PassCode
      /\ LinkPass("job", {"office"}, FALSE) \in PassCode
      /\ LinkPass("job", {"tag"}, FALSE) \in PassCode
      /\ RowPass("comment", CommentRefs, TRUE) \in PassCode
      /\ RowPass("line", LineRefs, FALSE) \in PassCode
      /\ RowPass("contract", ContractRefs, FALSE) \in PassCode
      /\ RowPass("request", RequestRefs, TRUE) \in PassCode
      /\ LinkPass("request", {"technician"}, FALSE) \in PassCode
      /\ LinkPass("request", ServiceRefs, FALSE) \in PassCode
  BY DEF PassCode, Kinds, Do, RowPass, LinkPass, CommentRefs, ContactRefs, ContractRefs,
         CustomerRefs, JobRefs, LineRefs, LocationRefs, OfficeRefs, ProjectRefs, RequestRefs,
         ServiceRefs, TagRefs, TechnicianRefs, UserRefs, VisitRefs
<1>4. \A k \in 1 .. 10 : Listing[k] \in BeforeCode BY <1>1, Listed
<1>5. \A k \in 14 .. 20 : Listing[k] \in AfterCode BY <1>2, Listed
<1>6. \A k \in 22 .. 48 : Listing[k] \in PassCode
  <2>1. /\ Listing[22] \in PassCode /\ Listing[23] \in PassCode /\ Listing[24] \in PassCode
        /\ Listing[25] \in PassCode /\ Listing[26] \in PassCode /\ Listing[27] \in PassCode
        /\ Listing[28] \in PassCode /\ Listing[29] \in PassCode /\ Listing[30] \in PassCode
    BY <1>3, PassesListed
  <2>2. /\ Listing[31] \in PassCode /\ Listing[32] \in PassCode /\ Listing[33] \in PassCode
        /\ Listing[34] \in PassCode /\ Listing[35] \in PassCode /\ Listing[36] \in PassCode
        /\ Listing[37] \in PassCode /\ Listing[38] \in PassCode /\ Listing[39] \in PassCode
    BY <1>3, PassesListed
  <2>3. /\ Listing[40] \in PassCode /\ Listing[41] \in PassCode /\ Listing[42] \in PassCode
        /\ Listing[43] \in PassCode /\ Listing[44] \in PassCode
    BY <1>3, PassesListed
  <2>4. /\ Listing[45] \in PassCode /\ Listing[46] \in PassCode /\ Listing[47] \in PassCode
        /\ Listing[48] \in PassCode
    BY <1>3, PassesListed
  <2> QED BY <2>1, <2>2, <2>3, <2>4
<1> QED BY <1>4, <1>5, <1>6

\* The program from its first statement to its last.
LEMMA ProgramShape ==
  /\ AtVisits \in Nat /\ AtBegin \in Nat /\ AtFinish \in Nat
  /\ 2 <= AtVisits /\ AtVisits + 3 <= AtBegin /\ AtBegin < AtFinish
  /\ Program[1].do = "details"
  /\ \A k \in 1 .. AtVisits - 1 : Program[k] \in BeforeCode
  /\ Program[AtVisits] = Do("visits") /\ Program[AtVisits + 1] = Do("prune")
  /\ Program[AtVisits + 2] = Do("cancel")
  /\ \A k \in AtVisits + 3 .. AtBegin - 1 : Program[k] \in AfterCode
  /\ Program[AtBegin] = Do("begin")
  /\ \A k \in AtBegin + 1 .. AtFinish - 1 : Program[k] \in PassCode
  /\ Program[AtFinish] = Do("finish")
<1>1. /\ AtVisits = 11 /\ AtBegin = 21 /\ AtFinish = 49
      /\ \A k \in 1 .. 49 : Program[k] = Listing[k]
  BY ProgramListed
<1>2. /\ Program[1] = Do("details") /\ Program[11] = Do("visits") /\ Program[12] = Do("prune")
      /\ Program[13] = Do("cancel") /\ Program[21] = Do("begin") /\ Program[49] = Do("finish")
  BY <1>1, Listed, PassesListed
<1>3. Program[1].do = "details" BY <1>2 DEF Do
<1>4. /\ \A k \in 1 .. 10 : Program[k] \in BeforeCode
      /\ \A k \in 14 .. 20 : Program[k] \in AfterCode
      /\ \A k \in 22 .. 48 : Program[k] \in PassCode
  BY <1>1, CodeListed
<1> QED BY <1>1, <1>2, <1>3, <1>4

\* The statement a run goes on to comes after the one it is at, and is not past
\* one that has something to do.
LEMMA NextPlace ==
  ASSUME NEW k \in 1 .. AtFinish - 1
  PROVE  /\ NextStatement[k] \in k + 1 .. AtFinish
         /\ \A m \in k + 1 .. AtFinish : HasRows(Program[m]) => NextStatement[k] <= m
<1>0. AtFinish \in Nat /\ k \in Nat /\ k < AtFinish BY ProgramShape
<1>1. /\ Statement \subseteq 1 .. AtFinish
      /\ \A m \in 1 .. AtFinish : HasRows(Program[m]) => m \in Statement
  BY DEF Statement, AtFinish
<1> DEFINE Later == {n \in Statement : n > k}
           R == OpToRel(<, Nat)
<1>2. Later \subseteq Nat /\ Later # {}
  <2>1. HasRows(Program[AtFinish]) BY ProgramShape DEF Do, HasRows
  <2>2. AtFinish \in 1 .. AtFinish BY <1>0
  <2>3. AtFinish \in Statement BY <1>1, <2>1, <2>2
  <2>4. AtFinish \in Later BY <1>0, <2>3
  <2>5. Later \subseteq Nat
    <3>1. Later \subseteq Statement OBVIOUS
    <3>2. 1 .. AtFinish \subseteq Nat BY <1>0
    <3> HIDE DEF Later
    <3> QED BY ONLY <1>1, <3>1, <3>2
  <2> QED BY <2>4, <2>5
<1>3. \A x, y \in Nat : <<y, x>> \in R <=> y < x BY DEF OpToRel
<1>4. IsWellFoundedOn(R, Nat) BY NatLessThanWellFounded
<1> HIDE DEF R
<1>5. PICK n \in Later : \A m \in Later : ~(<<m, n>> \in R)
  <2> HIDE DEF Later
  <2> QED BY <1>2, <1>4, WFMin
<1>6. \A m \in Later : m >= n
  <2> HIDE DEF Later
  <2>1. \A m \in Later : m \in Nat /\ n \in Nat /\ ~(m < n) BY <1>2, <1>3, <1>5
  <2> QED BY <2>1
<1>7. n \in Statement /\ n > k /\ \A m \in Statement : m > k => m >= n BY <1>5, <1>6
<1>8. NextStatement[k] = CHOOSE i \in Statement : i > k /\ \A m \in Statement : m > k => m >= i
  BY DEF NextStatement, AtFinish
<1>9. /\ NextStatement[k] \in Statement /\ NextStatement[k] > k
      /\ \A m \in Statement : m > k => m >= NextStatement[k]
  BY <1>7, <1>8
<1>10. NextStatement[k] \in k + 1 .. AtFinish
  <2>1. NextStatement[k] \in 1 .. AtFinish BY <1>1, <1>9
  <2>2. NextStatement[k] > k BY <1>9
  <2> QED BY ONLY <1>0, <2>1, <2>2
<1>11. ASSUME NEW m \in k + 1 .. AtFinish, HasRows(Program[m]) PROVE NextStatement[k] <= m
  <2>1. m \in 1 .. AtFinish /\ m > k BY <1>0
  <2> QED BY <1>1, <1>9, <1>10, <1>11, <2>1
<1> QED BY <1>10, <1>11

\* The next statement that has something to do comes later, and the statements
\* about visits are never passed over.
LEMMA NextSteps ==
  ASSUME NEW k \in 1 .. AtFinish - 1
  PROVE  /\ NextStatement[k] \in 1 .. AtFinish /\ NextStatement[k] > k
         /\ k < AtVisits => NextStatement[k] <= AtVisits
         /\ k = AtVisits => NextStatement[k] = AtVisits + 1
         /\ k = AtVisits + 1 => NextStatement[k] = AtVisits + 2
         /\ k < AtBegin => NextStatement[k] <= AtBegin
<1> DEFINE n == NextStatement[k]
<1>1. /\ AtVisits \in Nat /\ AtBegin \in Nat /\ AtFinish \in Nat /\ 2 <= AtVisits
      /\ AtVisits + 3 <= AtBegin /\ AtBegin < AtFinish
  BY ProgramShape
<1>2. /\ Program[AtVisits].kind = "none" /\ Program[AtVisits + 1].kind = "none"
      /\ Program[AtVisits + 2].kind = "none" /\ Program[AtBegin].kind = "none"
  BY ProgramShape DEF Do
<1>3. n \in k + 1 .. AtFinish /\ \A m \in k + 1 .. AtFinish : Program[m].kind = "none" => n <= m
  BY NextPlace DEF HasRows
<1> HIDE DEF n
<1>4. k < AtVisits => n <= AtVisits BY <1>1, <1>2, <1>3
<1>5. k = AtVisits => n <= AtVisits + 1 BY <1>1, <1>2, <1>3
<1>6. k = AtVisits + 1 => n <= AtVisits + 2 BY <1>1, <1>2, <1>3
<1>7. k < AtBegin => n <= AtBegin BY <1>1, <1>2, <1>3
<1>8. n \in 1 .. AtFinish /\ n > k
      /\ (k < AtVisits => n <= AtVisits) /\ (k = AtVisits => n = AtVisits + 1)
      /\ (k = AtVisits + 1 => n = AtVisits + 2) /\ (k < AtBegin => n <= AtBegin)
  BY ONLY <1>1, <1>3, <1>4, <1>5, <1>6, <1>7
<1> QED BY <1>8 DEF n

\* Where the statements of a kind are.
LEMMA Places ==
  ASSUME NEW k \in 1 .. AtFinish
  PROVE  /\ Program[k].do \in {"details", "people"} => k < AtVisits
         /\ Program[k].do = "visits" => k = AtVisits
         /\ Program[k].do = "prune" => k = AtVisits + 1
         /\ Program[k].do = "cancel" <=> k = AtVisits + 2
         /\ Program[k].do = "comments" => k > AtVisits + 2 /\ k < AtBegin
         /\ Program[k].do = "put" =>
              k < AtVisits \/ (k > AtVisits + 2 /\ k < AtBegin /\ Program[k].kind # "job")
         /\ Program[k].do = "begin" <=> k = AtBegin
         /\ Program[k].do \in {"read", "reread", "rows", "links"} =>
              k > AtBegin /\ k < AtFinish /\ Program[k] \in PassCode
         /\ Program[k].do = "finish" => k = AtFinish
<1>1. /\ AtVisits \in Nat /\ AtBegin \in Nat /\ AtFinish \in Nat /\ 2 <= AtVisits
      /\ AtVisits + 3 <= AtBegin /\ AtBegin < AtFinish
  BY ProgramShape
<1>2. CASE k < AtVisits
  <2>0. k \in 1 .. AtVisits - 1 BY <1>1, <1>2
  <2>1. Program[k] \in BeforeCode BY <2>0, ProgramShape
  <2>3. Program[k].do \in {"details", "people", "put"} BY <2>1 DEF BeforeCode
  <2>2. k < AtBegin /\ k # AtVisits + 2 /\ k # AtBegin BY <1>1, <1>2
  <2> QED BY <1>2, <2>2, <2>3
<1>3. CASE k = AtVisits
  <2>1. Program[k].do = "visits" BY <1>3, ProgramShape DEF Do
  <2>2. k # AtBegin /\ k # AtVisits + 2 BY <1>1, <1>3
  <2> QED BY <1>3, <2>1, <2>2
<1>4. CASE k = AtVisits + 1
  <2>1. Program[k].do = "prune" BY <1>4, ProgramShape DEF Do
  <2>2. k # AtBegin /\ k # AtVisits + 2 BY <1>1, <1>4
  <2> QED BY <1>4, <2>1, <2>2
<1>5. CASE k = AtVisits + 2
  <2>1. Program[k].do = "cancel" BY <1>5, ProgramShape DEF Do
  <2>2. k # AtBegin BY <1>1, <1>5
  <2> QED BY <1>5, <2>1, <2>2
<1>6. CASE k \in AtVisits + 3 .. AtBegin - 1
  <2>1. Program[k].do \in {"put", "comments"} /\ Program[k].kind # "job"
    BY <1>6, ProgramShape DEF AfterCode
  <2>2. k # AtBegin /\ k > AtVisits + 2 /\ k < AtBegin /\ k # AtVisits + 2 BY <1>1, <1>6
  <2> QED BY <2>1, <2>2
<1>7. CASE k = AtBegin
  <2>1. Program[k].do = "begin" BY <1>7, ProgramShape DEF Do
  <2>2. k # AtVisits + 2 BY <1>1, <1>7
  <2> QED BY <1>7, <2>1, <2>2
<1>8. CASE k \in AtBegin + 1 .. AtFinish - 1
  <2>1. Program[k] \in PassCode BY <1>8, ProgramShape
  <2>2. Program[k].do \in {"read", "reread", "rows", "links"} BY <2>1 DEF PassCode
  <2>3. k > AtBegin /\ k < AtFinish /\ k # AtBegin /\ k # AtVisits + 2 BY <1>1, <1>8
  <2> QED BY <2>1, <2>2, <2>3
<1>9. CASE k = AtFinish
  <2>1. Program[k].do = "finish" BY <1>9, ProgramShape DEF Do
  <2>2. k # AtBegin /\ k # AtVisits + 2 BY <1>1, <1>9
  <2> QED BY <1>9, <2>1, <2>2
<1>10. \/ k < AtVisits \/ k = AtVisits \/ k = AtVisits + 1 \/ k = AtVisits + 2
       \/ k \in AtVisits + 3 .. AtBegin - 1 \/ k = AtBegin
       \/ k \in AtBegin + 1 .. AtFinish - 1 \/ k = AtFinish
  BY ONLY <1>1, k \in 1 .. AtFinish
<1> QED BY <1>2, <1>3, <1>4, <1>5, <1>6, <1>7, <1>8, <1>9, <1>10

-----------------------------------------------------------------------------
(* Types.                                                                  *)

AllJobs      == OfKind(Entity, {"job"})
AllVisits    == OfKind(Entity, {"visit"})
AllCustomers == OfKind(Entity, {"customer"})

CrmTypes ==
  /\ book \in [Entity -> SUBSET Entity] /\ gone \subseteq AllVisits
  /\ edits \in 0 .. MaxEdits /\ entityFaults \in 0 .. MaxEntityFaults
RawTypes ==
  /\ stored \subseteq Entity /\ fresh \subseteq stored
  /\ naming \in [Entity -> SUBSET Entity] /\ rawPhone \subseteq OfKind(stored, {"customer"})
PlatformTypes ==
  /\ shown \subseteq Entity /\ edge \subseteq shown \X shown
  /\ phone \subseteq OfKind(shown, {"customer"}) /\ cancelled \subseteq OfKind(shown, {"visit"})
DebtTypes == owed \subseteq AllJobs /\ cut \subseteq AllVisits

\* What a run holds at its statement: before the visits arrive, "whole" has
\* customers, then jobs; what the passes have read is still stored, and what
\* is about to be cancelled are visits.
RunOK(w) ==
  /\ at[w] \in 0 .. AtFinish /\ late[w] = {} /\ task[w] \subseteq AllJobs
  /\ at[w] <= AtVisits => whole[w] \subseteq AllCustomers
  /\ at[w] > AtVisits => whole[w] \subseteq AllJobs
  /\ at[w] > AtBegin => hand[w] \subseteq stored
  /\ at[w] = AtVisits + 2 => scope[w] \subseteq AllVisits
Single == \A w, x \in Worker : at[w] # 0 /\ at[x] # 0 => w = x
RunTypes ==
  /\ at \in [Worker -> Nat] /\ task \in [Worker -> SUBSET Entity]
  /\ hand \in [Worker -> SUBSET Entity] /\ whole \in [Worker -> SUBSET Entity]
  /\ view \in [Worker -> [Entity -> SUBSET Entity]] /\ scope \in [Worker -> SUBSET Entity]
  /\ late \in [Worker -> SUBSET Entity]
  /\ Single /\ \A w \in Worker : RunOK(w)
EntityTypes == CrmTypes /\ RawTypes /\ PlatformTypes /\ DebtTypes /\ RunTypes

-----------------------------------------------------------------------------
(* What the prune keeps.                                                   *)

\* ServiceTrade and the copies of it say no more of a visit than it had from
\* the start, and its job stays with it.
Faithful ==
  /\ \A e \in Entity : book[e] \subseteq Book[e] /\ OfKind(Book[e], {"job"}) \subseteq book[e]
  /\ \A v \in AllVisits : naming[v] \subseteq Book[v] /\ \A w \in Worker : view[w][v] \subseteq Book[v]
\* A visit that a whole list does not contain was deleted in ServiceTrade.
ListsAreWhole ==
  \A w \in Worker :
    /\ at[w] = AtVisits + 1 =>
         \A v \in AllVisits : Book[v] \cap whole[w] # {} => v \in hand[w] \cup gone
    /\ at[w] = AtVisits + 2 => scope[w] \subseteq gone
\* A pruned visit is cancelled, is about to be, or its run died.
PrunedTold ==
  \A v \in OfKind(shown, {"visit"}) \ stored :
    v \in cancelled \cup cut \/ \E w \in Worker : at[w] = AtVisits + 2 /\ v \in scope[w]
PruneInv == Faithful /\ cancelled \subseteq gone /\ ListsAreWhole /\ PrunedTold

\* A step of a run leaves the other runs idle.
LEMMA RunGoes ==
  ASSUME RunTypes, NEW w \in Worker, \A x \in Worker : at[x] # 0 => x = w,
         NEW a \in 0 .. AtFinish, NEW T \in SUBSET AllJobs, NEW H \in SUBSET Entity,
         NEW V \in [Entity -> SUBSET Entity], NEW W \in SUBSET Entity, NEW S \in SUBSET Entity,
         at' = [at EXCEPT ![w] = a], task' = [task EXCEPT ![w] = T],
         hand' = [hand EXCEPT ![w] = H], view' = [view EXCEPT ![w] = V],
         whole' = [whole EXCEPT ![w] = W], scope' = [scope EXCEPT ![w] = S],
         late' \in [Worker -> SUBSET Entity], \A x \in Worker : late'[x] = {},
         a <= AtVisits => W \subseteq AllCustomers, a > AtVisits => W \subseteq AllJobs,
         a > AtBegin => H \subseteq stored', a = AtVisits + 2 => S \subseteq AllVisits
  PROVE  RunTypes'
<1>1. AtFinish \in Nat /\ AtVisits \in Nat /\ AtBegin \in Nat BY ProgramShape
<1>2. T \in SUBSET Entity BY DEF AllJobs, OfKind
<1>3. /\ at' \in [Worker -> Nat] /\ task' \in [Worker -> SUBSET Entity]
      /\ hand' \in [Worker -> SUBSET Entity] /\ whole' \in [Worker -> SUBSET Entity]
  BY <1>1, <1>2 DEF RunTypes
<1>4. /\ view' \in [Worker -> [Entity -> SUBSET Entity]] /\ scope' \in [Worker -> SUBSET Entity]
  BY DEF RunTypes
<1>5. \A x \in Worker : x # w => at'[x] = 0 BY DEF RunTypes
<1>6. Single' BY <1>5 DEF Single
<1>7. RunOK(w)'
  <2>1. /\ at'[w] = a /\ late'[w] = {} /\ task'[w] = T /\ hand'[w] = H /\ whole'[w] = W
        /\ scope'[w] = S
    BY DEF RunTypes
  <2> QED BY <2>1 DEF RunOK
<1>8. ASSUME NEW x \in Worker, x # w PROVE RunOK(x)'
  <2>1. /\ at'[x] = 0 /\ at[x] = 0 /\ late'[x] = {} /\ task'[x] = task[x] /\ whole'[x] = whole[x]
    BY <1>5, <1>8 DEF RunTypes
  <2>2. RunOK(x) BY DEF RunTypes
  <2>3. task[x] \subseteq AllJobs /\ whole[x] \subseteq AllCustomers
    BY <1>1, <2>1, <2>2 DEF RunOK
  <2>4. 0 \in 0 .. AtFinish /\ 0 <= AtVisits /\ ~(0 > AtVisits) /\ ~(0 > AtBegin)
        /\ 0 # AtVisits + 2
    BY <1>1
  <2> QED BY <2>1, <2>3, <2>4 DEF RunOK
<1> QED BY <1>3, <1>4, <1>6, <1>7, <1>8 DEF RunTypes

\* A statement of a run at work: what is known before it.
LEMMA RunAt ==
  ASSUME RunTypes, NEW w \in Worker, at[w] # 0
  PROVE  /\ at[w] \in 1 .. AtFinish /\ RunOK(w) /\ \A x \in Worker : at[x] # 0 => x = w
         /\ Normalizes(w) <=> at[w] > AtBegin
         /\ \A x \in Worker : Normalizes(x) => x = w
         /\ task' = task => task' = [task EXCEPT ![w] = task[w]]
         /\ hand' = hand => hand' = [hand EXCEPT ![w] = hand[w]]
         /\ view' = view => view' = [view EXCEPT ![w] = view[w]]
         /\ whole' = whole => whole' = [whole EXCEPT ![w] = whole[w]]
         /\ scope' = scope => scope' = [scope EXCEPT ![w] = scope[w]]
         /\ late' = late => late' \in [Worker -> SUBSET Entity] /\ \A x \in Worker : late'[x] = {}
<1>1. RunOK(w) /\ at[w] \in 0 .. AtFinish BY DEF RunTypes, RunOK
<1>2. at[w] \in 1 .. AtFinish
  <2>1. AtFinish \in Nat BY ProgramShape
  <2> QED BY <1>1, <2>1
<1>3. \A x \in Worker : at[x] # 0 => x = w BY DEF RunTypes, Single
<1>4. Normalizes(w) <=> at[w] > AtBegin
  <2>1. AtBegin \in Nat /\ AtFinish \in Nat /\ AtBegin < AtFinish /\ AtBegin > 0
    BY ProgramShape
  <2>2. \A i \in 1 .. AtFinish : Program[i].do = "begin" <=> i = AtBegin BY Places
  <2>3. \A i \in 1 .. at[w] - 1 : i \in 1 .. AtFinish /\ i < at[w] BY <1>2, <2>1
  <2>4. Normalizes(w) => at[w] > AtBegin BY <1>2, <2>2, <2>3 DEF Normalizes
  <2>5. at[w] > AtBegin => AtBegin \in 1 .. at[w] - 1 /\ AtBegin \in 1 .. AtFinish
    BY <1>2, <2>1
  <2> QED BY <2>2, <2>4, <2>5 DEF Normalizes
<1>5. \A x \in Worker : Normalizes(x) => x = w BY <1>3 DEF Normalizes
<1>6. \A x \in Worker : late[x] = {} BY DEF RunTypes, RunOK
<1> QED BY <1>1, <1>2, <1>3, <1>4, <1>5, <1>6 DEF RunTypes

\* Where a run is after a statement.
LEMMA Onward ==
  ASSUME RunTypes, NEW w \in Worker, at[w] # 0, Program[at[w]].do # "finish", Following(w)
  PROVE  LET a == NextStatement[at[w]]
         IN /\ at' = [at EXCEPT ![w] = a] /\ a \in 0 .. AtFinish /\ a > at[w] /\ at[w] # AtFinish
            /\ at[w] < AtVisits => a <= AtVisits
            /\ at[w] = AtVisits => a = AtVisits + 1
            /\ at[w] = AtVisits + 1 => a = AtVisits + 2
            /\ at[w] < AtBegin => a <= AtBegin
<1> DEFINE a == NextStatement[at[w]]
<1>1. at[w] \in 1 .. AtFinish BY RunAt
<1>2. AtFinish \in Nat /\ Program[AtFinish].do = "finish" BY ProgramShape DEF Do
<1>3. at[w] \in 1 .. AtFinish - 1 /\ at[w] # AtFinish BY <1>1, <1>2
<1>4. /\ a \in 1 .. AtFinish /\ a > at[w] /\ (at[w] < AtVisits => a <= AtVisits)
      /\ (at[w] = AtVisits => a = AtVisits + 1) /\ (at[w] = AtVisits + 1 => a = AtVisits + 2)
      /\ (at[w] < AtBegin => a <= AtBegin)
  BY <1>3, NextSteps
<1>5. a \in 0 .. AtFinish BY <1>2, <1>4
<1>6. at' = [at EXCEPT ![w] = a] BY DEF Following
<1> QED BY <1>3, <1>4, <1>5, <1>6

\* What is fetched with records is of the kinds asked for.
LEMMA UpDown ==
  ASSUME book \in [Entity -> SUBSET Entity], NEW X, NEW kinds
  PROVE  /\ X \subseteq Entity => Up(X, kinds) \subseteq OfKind(Entity, kinds)
         /\ Down(X, kinds) \subseteq OfKind(Entity, kinds)
         /\ OfKind(Entity, kinds) \subseteq Entity
BY DEF Up, Down, OfKind

\* ServiceTrade gives a record a reference, or takes it away.
LEMMA AssignTypes ==
  ASSUME EntityTypes, NEW e \in Entity, NEW t \in Book[e], Assign(e, t)
  PROVE  EntityTypes'
<1>1. /\ edits < MaxEdits /\ edits' = edits + 1
      /\ book' = [book EXCEPT ![e] = IF t \in @ THEN @ \ {t} ELSE @ \cup {t}]
      /\ UNCHANGED <<gone, rawState, platState, owed, cut, runState, entityFaults>>
  BY DEF Assign
<1>2. t \in Entity BY EntityAssumption
<1>3. book' \in [Entity -> SUBSET Entity]
  <2>1. book \in [Entity -> SUBSET Entity] BY DEF EntityTypes, CrmTypes
  <2>2. book[e] \ {t} \in SUBSET Entity /\ book[e] \cup {t} \in SUBSET Entity BY <1>2, <2>1
  <2> QED BY <1>1, <2>1, <2>2
<1>4. edits' \in 0 .. MaxEdits BY <1>1, EntityAssumption DEF EntityTypes, CrmTypes
<1>5. CrmTypes' BY <1>1, <1>3, <1>4 DEF EntityTypes, CrmTypes
<1> HIDE DEF Assign
<1>6. RawTypes' /\ PlatformTypes' /\ DebtTypes'
  BY <1>1 DEF EntityTypes, RawTypes, PlatformTypes, DebtTypes, rawState, platState
<1>7. RunTypes' BY <1>1 DEF EntityTypes, RunTypes, RunOK, Single, runState, rawState
<1> QED BY <1>5, <1>6, <1>7 DEF EntityTypes

\* ServiceTrade deletes a record.
LEMMA DeleteTypes ==
  ASSUME EntityTypes, NEW v \in AllVisits, DeleteVisit(v)
  PROVE  EntityTypes'
<1>1. /\ edits < MaxEdits /\ edits' = edits + 1 /\ gone' = gone \cup {v}
      /\ UNCHANGED <<book, rawState, platState, owed, cut, runState, entityFaults>>
  BY DEF DeleteVisit
<1>2. edits' \in 0 .. MaxEdits BY <1>1, EntityAssumption DEF EntityTypes, CrmTypes
<1>3. CrmTypes' BY <1>1, <1>2 DEF EntityTypes, CrmTypes
<1>4. RawTypes' /\ PlatformTypes' /\ DebtTypes'
  BY <1>1 DEF EntityTypes, RawTypes, PlatformTypes, DebtTypes, rawState, platState
<1>5. RunTypes' BY <1>1 DEF EntityTypes, RunTypes, RunOK, Single, runState, rawState
<1> QED BY <1>3, <1>4, <1>5 DEF EntityTypes

\* A run begins.
LEMMA BeginTypes ==
  ASSUME EntityTypes, ~RunsOverlap, NEW w \in Worker, NEW J \in SUBSET AllJobs, Begin(w, J)
  PROVE  EntityTypes'
<1>1. /\ at[w] = 0 /\ AtWork = {} /\ at' = [at EXCEPT ![w] = 1]
      /\ task' = [task EXCEPT ![w] = J]
      /\ UNCHANGED <<crmState, rawState, platState, owed, cut, hand, view, whole, scope, late, newly,
                     edits, entityFaults>>
  BY DEF Begin
<1>2. CrmTypes' /\ RawTypes' /\ PlatformTypes' /\ DebtTypes'
  BY <1>1 DEF EntityTypes, CrmTypes, RawTypes, PlatformTypes, DebtTypes, crmState, rawState, platState
<1>3. /\ AtFinish \in Nat /\ AtVisits \in Nat /\ AtBegin \in Nat /\ 2 <= AtVisits
      /\ AtVisits + 3 <= AtBegin /\ AtBegin < AtFinish
  BY ProgramShape
<1>4. RunTypes /\ RunOK(w) BY DEF EntityTypes, RunTypes
<1>5. \A x \in Worker : at[x] # 0 => x = w BY <1>1 DEF AtWork
<1>6. whole[w] \subseteq AllCustomers BY <1>1, <1>3, <1>4 DEF RunOK
<1>7. /\ hand' = [hand EXCEPT ![w] = hand[w]] /\ view' = [view EXCEPT ![w] = view[w]]
      /\ whole' = [whole EXCEPT ![w] = whole[w]] /\ scope' = [scope EXCEPT ![w] = scope[w]]
      /\ hand[w] \in SUBSET Entity /\ view[w] \in [Entity -> SUBSET Entity]
      /\ whole[w] \in SUBSET Entity /\ scope[w] \in SUBSET Entity
  BY <1>1, <1>4 DEF RunTypes
<1>8. late' \in [Worker -> SUBSET Entity] /\ \A x \in Worker : late'[x] = {}
  BY <1>1, <1>4 DEF RunTypes, RunOK
<1>9. 1 \in 0 .. AtFinish /\ 1 <= AtVisits /\ ~(1 > AtVisits) /\ ~(1 > AtBegin) /\ 1 # AtVisits + 2
  BY <1>3
<1>10. RunTypes'
  <2>1. at' = [at EXCEPT ![w] = 1] /\ task' = [task EXCEPT ![w] = J] BY <1>1
  <2> HIDE DEF Begin
  <2> QED BY <1>4, <1>5, <1>6, <1>7, <1>8, <1>9, <2>1, RunGoes
<1> QED BY <1>2, <1>10 DEF EntityTypes

\* The run state after a step of the fan-out, of a pass, and at the end.
LEMMA FanOutRun ==
  ASSUME RunTypes, NEW w \in Worker, at[w] # 0, at[w] < AtBegin, Following(w), task' = task,
         NEW H \in SUBSET Entity, NEW V \in [Entity -> SUBSET Entity], NEW W \in SUBSET Entity,
         NEW S \in SUBSET Entity,
         hand' = [hand EXCEPT ![w] = H], view' = [view EXCEPT ![w] = V],
         whole' = [whole EXCEPT ![w] = W], scope' = [scope EXCEPT ![w] = S],
         late' \in [Worker -> SUBSET Entity], \A x \in Worker : late'[x] = {},
         at[w] < AtVisits => W \subseteq AllCustomers, at[w] >= AtVisits => W \subseteq AllJobs,
         at[w] = AtVisits + 1 => S \subseteq AllVisits
  PROVE  RunTypes'
<1> DEFINE a == NextStatement[at[w]]
<1>1. /\ at[w] \in 1 .. AtFinish /\ RunOK(w) /\ task' = [task EXCEPT ![w] = task[w]]
      /\ \A x \in Worker : at[x] # 0 => x = w
  BY RunAt
<1>2. /\ AtFinish \in Nat /\ AtVisits \in Nat /\ AtBegin \in Nat /\ 2 <= AtVisits
      /\ AtVisits + 3 <= AtBegin /\ AtBegin < AtFinish
  BY ProgramShape
<1>3. Program[at[w]].do # "finish"
  <2>1. Program[at[w]].do = "finish" => at[w] = AtFinish BY <1>1, Places
  <2> QED BY <1>1, <1>2, <2>1
<1>4. /\ at' = [at EXCEPT ![w] = a] /\ a \in 0 .. AtFinish /\ a > at[w]
      /\ (at[w] < AtVisits => a <= AtVisits) /\ (at[w] = AtVisits => a = AtVisits + 1)
      /\ (at[w] = AtVisits + 1 => a = AtVisits + 2) /\ (at[w] < AtBegin => a <= AtBegin)
  BY <1>3, Onward
<1> HIDE DEF a
<1>5. task[w] \in SUBSET AllJobs BY <1>1 DEF RunOK
<1>6. /\ at[w] \in Nat /\ at[w] < AtBegin /\ a \in Nat BY <1>1, <1>2, <1>4
<1>7. /\ a <= AtVisits => at[w] < AtVisits
      /\ a > AtVisits => at[w] >= AtVisits
      /\ ~(a > AtBegin) /\ (a = AtVisits + 2 => at[w] = AtVisits + 1)
  BY <1>2, <1>4, <1>6
<1>8. /\ a <= AtVisits => W \subseteq AllCustomers
      /\ a > AtVisits => W \subseteq AllJobs
      /\ a > AtBegin => H \subseteq stored'
      /\ a = AtVisits + 2 => S \subseteq AllVisits
  BY <1>7
<1> QED BY <1>1, <1>4, <1>5, <1>8, RunGoes

\* A normalizing run takes a step.
LEMMA PassRun ==
  ASSUME RunTypes, NEW w \in Worker, at[w] >= AtBegin, Program[at[w]].do # "finish", Following(w),
         task' = task,
         NEW H \in SUBSET Entity, NEW V \in [Entity -> SUBSET Entity], NEW W \in SUBSET AllJobs,
         NEW S \in SUBSET Entity,
         hand' = [hand EXCEPT ![w] = H], view' = [view EXCEPT ![w] = V],
         whole' = [whole EXCEPT ![w] = W], scope' = [scope EXCEPT ![w] = S],
         late' \in [Worker -> SUBSET Entity], \A x \in Worker : late'[x] = {},
         H \subseteq stored'
  PROVE  RunTypes'
<1> DEFINE a == NextStatement[at[w]]
<1>1. /\ AtFinish \in Nat /\ AtVisits \in Nat /\ AtBegin \in Nat /\ 2 <= AtVisits
      /\ AtVisits + 3 <= AtBegin /\ AtBegin < AtFinish
  BY ProgramShape
<1>2. at[w] # 0 BY <1>1
<1>3. /\ at[w] \in 1 .. AtFinish /\ RunOK(w) /\ task' = [task EXCEPT ![w] = task[w]]
      /\ \A x \in Worker : at[x] # 0 => x = w
  BY <1>2, RunAt
<1>4. /\ at' = [at EXCEPT ![w] = a] /\ a \in 0 .. AtFinish /\ a > at[w]
  BY <1>2, Onward
<1> HIDE DEF a
<1>5. task[w] \in SUBSET AllJobs BY <1>3 DEF RunOK
<1>6. a > AtVisits /\ a # AtVisits + 2 /\ ~(a <= AtVisits) BY <1>1, <1>3, <1>4
<1>7. W \in SUBSET Entity BY DEF AllJobs, OfKind
<1> QED BY <1>3, <1>4, <1>5, <1>6, <1>7, RunGoes

\* A run ends.
LEMMA RestRun ==
  ASSUME RunTypes, NEW w \in Worker, at[w] # 0, Rest(w)
  PROVE  RunTypes'
<1> DEFINE none == [e \in Entity |-> {}]
<1>1. \A x \in Worker : at[x] # 0 => x = w BY RunAt
<1>2. /\ at' = [at EXCEPT ![w] = 0] /\ task' = [task EXCEPT ![w] = {}]
      /\ hand' = [hand EXCEPT ![w] = {}] /\ view' = [view EXCEPT ![w] = none]
      /\ whole' = [whole EXCEPT ![w] = {}] /\ scope' = [scope EXCEPT ![w] = {}]
      /\ late' = [late EXCEPT ![w] = {}]
  BY DEF Rest
<1>3. late' \in [Worker -> SUBSET Entity] /\ \A x \in Worker : late'[x] = {}
  BY <1>2 DEF RunTypes, RunOK
<1>4. none \in [Entity -> SUBSET Entity] OBVIOUS
<1>5. 0 \in 0 .. AtFinish BY ProgramShape
<1> HIDE DEF none, Rest
<1>6. {} \in SUBSET Entity /\ {} \in SUBSET AllJobs OBVIOUS
<1>7. {} \subseteq AllCustomers /\ {} \subseteq AllJobs /\ {} \subseteq stored' /\ {} \subseteq AllVisits
  OBVIOUS
<1> QED BY <1>1, <1>2, <1>3, <1>4, <1>5, <1>6, <1>7, RunGoes

\* A run receives records.
LEMMA ReceiveTypes ==
  ASSUME EntityTypes, NEW w \in Worker, at[w] # 0, at[w] < AtBegin, at[w] # AtVisits + 1,
         NEW X \in SUBSET Entity, Receive(w, X), NEW W \in SUBSET Entity,
         whole' = [whole EXCEPT ![w] = W], scope' = scope, entityFaults' \in 0 .. MaxEntityFaults,
         at[w] < AtVisits => W \subseteq AllCustomers, at[w] >= AtVisits => W \subseteq AllJobs
  PROVE  EntityTypes'
<1> DEFINE H == hand[w] \cup X
           V == [e \in Entity |-> IF e \in X THEN book[e] ELSE view[w][e]]
<1>1. /\ hand' = [hand EXCEPT ![w] = H] /\ view' = [view EXCEPT ![w] = V] /\ Following(w)
      /\ UNCHANGED <<crmState, rawState, platState, owed, cut, task, late, newly, edits>>
  BY DEF Receive
<1>2. CrmTypes' /\ RawTypes' /\ PlatformTypes' /\ DebtTypes'
  BY <1>1 DEF EntityTypes, CrmTypes, RawTypes, PlatformTypes, DebtTypes, crmState, rawState, platState
<1>3. H \in SUBSET Entity /\ V \in [Entity -> SUBSET Entity] /\ scope[w] \in SUBSET Entity
  BY DEF EntityTypes, CrmTypes, RunTypes
<1> HIDE DEF H, V, Receive
<1>4. /\ RunTypes /\ scope' = [scope EXCEPT ![w] = scope[w]] /\ task' = task
      /\ late' \in [Worker -> SUBSET Entity] /\ \A x \in Worker : late'[x] = {}
  BY <1>1, RunAt DEF EntityTypes
<1>5. at[w] = AtVisits + 1 => scope[w] \subseteq AllVisits OBVIOUS
<1>6. RunTypes' BY <1>1, <1>3, <1>4, <1>5, FanOutRun
<1> QED BY <1>2, <1>6 DEF EntityTypes

\* A request that may fail leaves the count of failures in bounds.
LEMMA FaultsTyped ==
  ASSUME entityFaults \in 0 .. MaxEntityFaults, UNCHANGED entityFaults \/ EntityFault
  PROVE  entityFaults' \in 0 .. MaxEntityFaults
BY EntityAssumption DEF EntityFault

\* A run fetches the jobs, or their comments.
LEMMA DetailTypes ==
  ASSUME EntityTypes, NEW w \in Worker, Detail(w) \/ Comments(w)
  PROVE  EntityTypes'
<1>1. /\ book \in [Entity -> SUBSET Entity] /\ task[w] \subseteq Entity /\ RunTypes
      /\ entityFaults \in 0 .. MaxEntityFaults
  BY DEF EntityTypes, CrmTypes, RunTypes
<1>2. PICK X \in SUBSET Entity : Receive(w, X)
  <2>1. CASE Detail(w)
    <3> DEFINE places == Up(task[w], {"location"})
               X == task[w] \cup places \cup Up(places, {"office", "tag", "contact"})
                    \cup Up(task[w], {"customer", "user", "project", "office", "tag", "contact"})
    <3>1. places \subseteq Entity BY <1>1, UpDown
    <3>2. X \subseteq Entity
      <4> HIDE DEF places
      <4>1. /\ Up(places, {"office", "tag", "contact"}) \subseteq Entity
            /\ Up(task[w], {"customer", "user", "project", "office", "tag", "contact"}) \subseteq Entity
        BY <1>1, <3>1, UpDown
      <4> QED BY <1>1, <3>1, <4>1
    <3>3. Receive(w, X) BY <2>1 DEF Detail
    <3> QED BY <3>2, <3>3
  <2>2. CASE Comments(w)
    <3>1. Receive(w, Down(task[w], {"comment"})) BY <2>2 DEF Comments
    <3>2. Down(task[w], {"comment"}) \subseteq Entity BY <1>1, UpDown
    <3> QED BY <3>1, <3>2
  <2> QED BY <2>1, <2>2
<1>3. /\ at[w] # 0 /\ Program[at[w]].do \in {"details", "comments"}
      /\ UNCHANGED <<whole, scope, entityFaults>>
      /\ Program[at[w]].do = "details" \/ Program[at[w]].do = "comments"
  BY DEF Detail, Comments, At
<1>4. /\ at[w] \in 1 .. AtFinish /\ RunOK(w) /\ whole' = [whole EXCEPT ![w] = whole[w]]
      /\ whole[w] \in SUBSET Entity
  BY <1>1, <1>3, RunAt DEF RunTypes
<1>5. at[w] < AtVisits \/ (at[w] > AtVisits + 2 /\ at[w] < AtBegin)
  BY <1>3, <1>4, Places
<1>6. AtVisits \in Nat /\ AtBegin \in Nat /\ AtVisits + 3 <= AtBegin /\ AtFinish \in Nat
  BY ProgramShape
<1>7. at[w] < AtBegin /\ at[w] # AtVisits + 1 BY <1>4, <1>5, <1>6
<1>8. (at[w] < AtVisits => at[w] <= AtVisits) /\ (at[w] >= AtVisits => at[w] > AtVisits)
  BY <1>4, <1>5, <1>6
<1>9. /\ at[w] < AtVisits => whole[w] \subseteq AllCustomers
      /\ at[w] >= AtVisits => whole[w] \subseteq AllJobs
  BY <1>4, <1>8 DEF RunOK
<1> QED BY <1>1, <1>2, <1>3, <1>4, <1>7, <1>9, ReceiveTypes

\* A run lists the visits of its jobs.
LEMMA VisitListTypes ==
  ASSUME EntityTypes, NEW w \in Worker, VisitList(w)
  PROVE  EntityTypes'
<1>1. /\ book \in [Entity -> SUBSET Entity] /\ task[w] \subseteq Entity /\ RunTypes
      /\ entityFaults \in 0 .. MaxEntityFaults
  BY DEF EntityTypes, CrmTypes, RunTypes
<1>2. at[w] # 0 /\ Program[at[w]].do = "visits" BY DEF VisitList, At
<1>3. /\ at[w] \in 1 .. AtFinish /\ RunOK(w) BY <1>1, <1>2, RunAt
<1>4. at[w] = AtVisits BY <1>2, <1>3, Places
<1>5. AtVisits \in Nat /\ AtBegin \in Nat /\ AtVisits + 3 <= AtBegin BY ProgramShape
<1>6. at[w] < AtBegin /\ at[w] # AtVisits + 1 /\ ~(at[w] < AtVisits) BY <1>4, <1>5
<1>7. PICK full \in SUBSET task[w] : \E some \in SUBSET Down(task[w] \ full, {"visit"}) :
        LET V == Down(full, {"visit"}) \cup some
            Q == Down(V, {"request"})
        IN /\ IF full = task[w] THEN UNCHANGED entityFaults ELSE EntityFault
           /\ whole' = [whole EXCEPT ![w] = full]
           /\ Receive(w, V \cup Up(V, {"technician", "office"}) \cup Q \cup Up(Q, {"line"}))
  BY DEF VisitList
<1>13. PICK some \in SUBSET Down(task[w] \ full, {"visit"}) :
        LET V == Down(full, {"visit"}) \cup some
            Q == Down(V, {"request"})
        IN /\ IF full = task[w] THEN UNCHANGED entityFaults ELSE EntityFault
           /\ whole' = [whole EXCEPT ![w] = full]
           /\ Receive(w, V \cup Up(V, {"technician", "office"}) \cup Q \cup Up(Q, {"line"}))
  BY <1>7
<1> DEFINE V == Down(full, {"visit"}) \cup some
           Q == Down(V, {"request"})
           X == V \cup Up(V, {"technician", "office"}) \cup Q \cup Up(Q, {"line"})
<1>8. Receive(w, X) /\ whole' = [whole EXCEPT ![w] = full] /\ scope' = scope
      /\ (UNCHANGED entityFaults \/ EntityFault)
  BY <1>13 DEF VisitList
<1>9. V \subseteq Entity
  <2>1. Down(full, {"visit"}) \subseteq Entity /\ Down(task[w] \ full, {"visit"}) \subseteq Entity
    BY <1>1, UpDown
  <2> QED BY <2>1
<1>10. X \subseteq Entity
  <2> HIDE DEF V
  <2>1. Q \subseteq Entity BY <1>1, <1>9, UpDown
  <2> HIDE DEF Q
  <2>2. Up(V, {"technician", "office"}) \subseteq Entity /\ Up(Q, {"line"}) \subseteq Entity
    BY <1>1, <1>9, <2>1, UpDown
  <2> QED BY <1>9, <2>1, <2>2
<1> HIDE DEF X
<1>11. full \subseteq AllJobs /\ full \in SUBSET Entity BY <1>1, <1>3 DEF RunOK
<1>12. entityFaults' \in 0 .. MaxEntityFaults BY <1>1, <1>8, FaultsTyped
<1> QED BY <1>2, <1>6, <1>8, <1>10, <1>11, <1>12, ReceiveTypes

\* A run fetches who the jobs are about.
LEMMA PeopleTypes ==
  ASSUME EntityTypes, NEW w \in Worker, People(w)
  PROVE  EntityTypes'
<1> DEFINE customers == OfKind(hand[w], {"customer"})
           embedded  == OfKind(hand[w], {"contact"})
<1>1. /\ book \in [Entity -> SUBSET Entity] /\ hand[w] \subseteq Entity /\ RunTypes
      /\ entityFaults \in 0 .. MaxEntityFaults /\ view[w] \in [Entity -> SUBSET Entity]
  BY DEF EntityTypes, CrmTypes, RunTypes
<1>2. at[w] # 0 /\ Program[at[w]].do = "people" BY DEF People, At
<1>3. /\ at[w] \in 1 .. AtFinish /\ RunOK(w)
      /\ task' = task => task' = [task EXCEPT ![w] = task[w]]
      /\ scope' = scope => scope' = [scope EXCEPT ![w] = scope[w]]
      /\ late' = late => late' \in [Worker -> SUBSET Entity] /\ \A x \in Worker : late'[x] = {}
  BY <1>1, <1>2, RunAt
<1>4. AtVisits \in Nat /\ AtBegin \in Nat /\ AtVisits + 3 <= AtBegin /\ AtFinish \in Nat
  BY ProgramShape
<1>5. at[w] < AtVisits BY <1>2, <1>3, Places
<1>6. at[w] < AtBegin /\ ~(at[w] >= AtVisits) /\ at[w] # AtVisits + 1 BY <1>3, <1>4, <1>5
<1>7. PICK known \in SUBSET customers, listed \in SUBSET customers :
        LET roster == Down(listed, {"contact"})
        IN /\ IF known = customers /\ listed = customers THEN UNCHANGED entityFaults
              ELSE EntityFault
           /\ whole' = [whole EXCEPT ![w] = known]
           /\ hand' = [hand EXCEPT ![w] = @ \cup roster]
           /\ view' = [view EXCEPT ![w] = [e \in Entity |->
                         IF e \in embedded \cup roster
                         THEN Embedded(w, e) \cup (IF e \in roster THEN book[e] ELSE {})
                         ELSE @[e]]]
  BY DEF People
<1> DEFINE roster == Down(listed, {"contact"})
           H == hand[w] \cup roster
           V == [e \in Entity |->
                   IF e \in embedded \cup roster
                   THEN Embedded(w, e) \cup (IF e \in roster THEN book[e] ELSE {})
                   ELSE view[w][e]]
<1>8. /\ whole' = [whole EXCEPT ![w] = known] /\ hand' = [hand EXCEPT ![w] = H]
      /\ view' = [view EXCEPT ![w] = V] /\ (UNCHANGED entityFaults \/ EntityFault)
  BY <1>7
<1>9. /\ Following(w)
      /\ UNCHANGED <<crmState, rawState, platState, owed, cut, task, scope, late, newly, edits>>
  BY DEF People
<1>10. H \in SUBSET Entity
  <2>1. roster \subseteq Entity BY <1>1, UpDown
  <2> QED BY <1>1, <2>1
<1>11. V \in [Entity -> SUBSET Entity]
  <2>1. ASSUME NEW e \in Entity PROVE Embedded(w, e) \subseteq Entity
    <3>1. \A j \in Entity : view[w][j] \subseteq Entity BY <1>1
    <3>2. task[w] \subseteq Entity BY DEF EntityTypes, RunTypes
    <3> QED BY <3>1, <3>2 DEF Embedded, OfKind
  <2> HIDE DEF embedded, roster
  <2> QED BY <1>1, <2>1
<1>12. known \in SUBSET AllCustomers /\ known \in SUBSET Entity BY <1>1 DEF OfKind, AllCustomers
<1>13. entityFaults' \in 0 .. MaxEntityFaults BY <1>1, <1>8, FaultsTyped
<1>14. CrmTypes' /\ RawTypes' /\ PlatformTypes' /\ DebtTypes'
  BY <1>9, <1>13 DEF EntityTypes, CrmTypes, RawTypes, PlatformTypes, DebtTypes, crmState, rawState,
                     platState
<1> HIDE DEF H, V, People, customers
<1>15. scope[w] \in SUBSET Entity /\ task' = task BY <1>1, <1>9 DEF RunTypes
<1>16. scope' = [scope EXCEPT ![w] = scope[w]] /\ late' \in [Worker -> SUBSET Entity]
       /\ \A x \in Worker : late'[x] = {}
  BY <1>3, <1>9
<1>17. RunTypes'
  BY <1>1, <1>2, <1>6, <1>8, <1>9, <1>10, <1>11, <1>12, <1>15, <1>16, FanOutRun
<1> QED BY <1>14, <1>17 DEF EntityTypes

\* A statement that changes no more of a run than its place, and possibly what
\* it is about to cancel.
LEMMA QuietRun ==
  ASSUME RunTypes, NEW w \in Worker, at[w] # 0, Program[at[w]].do # "finish", Following(w),
         UNCHANGED <<task, hand, view, whole>>, NEW S \in SUBSET Entity,
         scope' = [scope EXCEPT ![w] = S],
         late' \in [Worker -> SUBSET Entity], \A x \in Worker : late'[x] = {},
         at[w] # AtVisits, at[w] # AtBegin, at[w] = AtVisits + 1 => S \subseteq AllVisits,
         at[w] > AtBegin => hand[w] \subseteq stored'
  PROVE  RunTypes'
<1>1. /\ at[w] \in 1 .. AtFinish /\ RunOK(w)
      /\ hand' = [hand EXCEPT ![w] = hand[w]] /\ view' = [view EXCEPT ![w] = view[w]]
      /\ whole' = [whole EXCEPT ![w] = whole[w]]
  BY RunAt
<1>2. /\ hand[w] \in SUBSET Entity /\ view[w] \in [Entity -> SUBSET Entity]
      /\ whole[w] \in SUBSET Entity /\ task' = task
  BY DEF RunTypes
<1>3. AtVisits \in Nat /\ AtBegin \in Nat /\ AtVisits + 3 <= AtBegin /\ AtFinish \in Nat
  BY ProgramShape
<1>4. CASE at[w] < AtBegin
  <2>1. /\ at[w] < AtVisits => at[w] <= AtVisits
        /\ at[w] >= AtVisits => at[w] > AtVisits
    BY <1>1, <1>3
  <2>2. /\ at[w] < AtVisits => whole[w] \subseteq AllCustomers
        /\ at[w] >= AtVisits => whole[w] \subseteq AllJobs
    BY <1>1, <2>1 DEF RunOK
  <2> QED BY <1>1, <1>2, <1>4, <2>2, FanOutRun
<1>5. CASE ~(at[w] < AtBegin)
  <2>1. at[w] >= AtBegin /\ at[w] > AtBegin /\ at[w] > AtVisits BY <1>1, <1>3, <1>5
  <2>2. whole[w] \in SUBSET AllJobs BY <1>1, <2>1 DEF RunOK
  <2> QED BY <1>1, <1>2, <2>1, <2>2, PassRun
<1> QED BY <1>4, <1>5

\* A run prunes visits.
LEMMA PruneTypes ==
  ASSUME EntityTypes, NEW w \in Worker, Prune(w)
  PROVE  EntityTypes'
<1>1. at[w] # 0 /\ Program[at[w]].do = "prune" BY DEF Prune, At
<1>2. at[w] \in 1 .. AtFinish /\ RunTypes /\ at[w] = AtVisits + 1
  <2>1. at[w] \in 1 .. AtFinish /\ RunTypes BY <1>1, RunAt DEF EntityTypes
  <2> QED BY <1>1, <2>1, Places
<1>3. /\ stored' = stored \ Missing(w) /\ fresh' = fresh \ Missing(w)
      /\ scope' = [scope EXCEPT ![w] = Missing(w)] /\ Following(w)
      /\ UNCHANGED <<crmState, naming, rawPhone, platState, owed, cut, task, hand, view, whole,
                     late, newly, edits, entityFaults>>
  BY DEF Prune
<1>4. Missing(w) \subseteq OfKind(stored, {"visit"}) BY DEF Missing
<1>5. Missing(w) \subseteq AllVisits /\ Missing(w) \in SUBSET Entity
  BY <1>4 DEF EntityTypes, RawTypes, OfKind, AllVisits
<1>6. RawTypes'
  <2>1. OfKind(stored, {"customer"}) \subseteq stored' BY <1>3, <1>4 DEF OfKind
  <2> HIDE DEF Prune
  <2> QED BY <1>3, <2>1 DEF EntityTypes, RawTypes, OfKind
<1>7. CrmTypes' /\ PlatformTypes' /\ DebtTypes'
  BY <1>3 DEF EntityTypes, CrmTypes, PlatformTypes, DebtTypes, crmState, platState
<1>8. AtVisits \in Nat /\ AtBegin \in Nat /\ AtVisits + 3 <= AtBegin BY ProgramShape
<1>9. at[w] # AtVisits /\ at[w] # AtBegin /\ ~(at[w] > AtBegin) BY <1>2, <1>8
<1>10. late' \in [Worker -> SUBSET Entity] /\ \A x \in Worker : late'[x] = {}
  BY <1>1, <1>2, <1>3, RunAt
<1> HIDE DEF Prune
<1>11. RunTypes' BY <1>1, <1>2, <1>3, <1>5, <1>9, <1>10, QuietRun
<1> QED BY <1>6, <1>7, <1>11 DEF EntityTypes

\* A run marks visits cancelled.
LEMMA CancelTypes ==
  ASSUME EntityTypes, NEW w \in Worker, CancelMissing(w)
  PROVE  EntityTypes'
<1>1. at[w] # 0 /\ Program[at[w]].do = "cancel" BY DEF CancelMissing, At
<1>2. at[w] \in 1 .. AtFinish /\ RunTypes /\ at[w] = AtVisits + 2 /\ RunOK(w)
  <2>1. at[w] \in 1 .. AtFinish /\ RunTypes /\ RunOK(w) BY <1>1, RunAt DEF EntityTypes
  <2> QED BY <1>1, <2>1, Places
<1>3. /\ cancelled' = cancelled \cup (scope[w] \cap shown) /\ Following(w)
      /\ UNCHANGED <<crmState, rawState, shown, edge, phone, owed, cut, task, hand, view, whole,
                     scope, late, newly, edits, entityFaults>>
  BY DEF CancelMissing
<1>4. scope[w] \subseteq AllVisits /\ scope[w] \in SUBSET Entity BY <1>2 DEF RunOK, RunTypes
<1>5. PlatformTypes' BY <1>3, <1>4 DEF EntityTypes, PlatformTypes, OfKind, AllVisits
<1>6. CrmTypes' /\ RawTypes' /\ DebtTypes'
  BY <1>3 DEF EntityTypes, CrmTypes, RawTypes, DebtTypes, crmState, rawState
<1>7. AtVisits \in Nat /\ AtBegin \in Nat /\ AtVisits + 3 <= AtBegin BY ProgramShape
<1>8. at[w] # AtVisits /\ at[w] # AtBegin /\ at[w] # AtVisits + 1 /\ ~(at[w] > AtBegin)
  BY <1>2, <1>7
<1>9. late' \in [Worker -> SUBSET Entity] /\ \A x \in Worker : late'[x] = {}
  BY <1>1, <1>2, <1>3, RunAt
<1>10. scope' = [scope EXCEPT ![w] = scope[w]] BY <1>2, <1>3 DEF RunTypes
<1> HIDE DEF CancelMissing
<1>11. RunTypes' BY <1>1, <1>2, <1>3, <1>4, <1>8, <1>9, <1>10, QuietRun
<1> QED BY <1>5, <1>6, <1>11 DEF EntityTypes

\* A run stores raw rows.
LEMMA PutTypes ==
  ASSUME EntityTypes, NEW w \in Worker, UpsertBatch(w)
  PROVE  EntityTypes'
<1> DEFINE U == Upserted(w)
<1>1. at[w] # 0 /\ Program[at[w]].do = "put" BY DEF UpsertBatch, At
<1>2. /\ at[w] \in 1 .. AtFinish /\ RunTypes /\ RunOK(w)
      /\ Normalizes(w) <=> at[w] > AtBegin
      /\ \A x \in Worker : Normalizes(x) => x = w
  BY <1>1, RunAt DEF EntityTypes
<1>3. at[w] < AtVisits
      \/ (at[w] > AtVisits + 2 /\ at[w] < AtBegin /\ Program[at[w]].kind # "job")
  BY <1>1, <1>2, Places
<1>4. AtVisits \in Nat /\ AtBegin \in Nat /\ AtVisits + 3 <= AtBegin /\ AtFinish \in Nat
  BY ProgramShape
<1>5. at[w] # AtVisits /\ at[w] # AtBegin /\ at[w] # AtVisits + 1 /\ ~(at[w] > AtBegin)
  BY <1>2, <1>3, <1>4
<1>6. /\ stored' = stored \cup U /\ fresh' = fresh \cup U
      /\ naming' = [e \in Entity |-> IF e \in U THEN OfKind(view[w][e], Program[at[w]].to)
                                     ELSE naming[e]]
      /\ late' = [x \in Worker |-> IF Normalizes(x) THEN late[x] \cup U ELSE {}]
      /\ rawPhone' = (rawPhone \ U) \cup (U \cap whole[w]) /\ Following(w)
      /\ UNCHANGED <<crmState, platState, owed, cut, task, hand, view, whole, scope, newly, edits,
                     entityFaults>>
  BY DEF UpsertBatch
<1>7. hand[w] \subseteq Entity /\ view[w] \in [Entity -> SUBSET Entity] /\ scope[w] \in SUBSET Entity
  BY DEF EntityTypes, RunTypes
<1>8. U \subseteq Entity /\ \A e \in U : e[1] = Program[at[w]].kind
  BY <1>7 DEF Upserted, OfKind
<1>9. \A e \in U \cap whole[w] : e[1] = "customer"
  <2>1. CASE at[w] < AtVisits
    <3>1. at[w] <= AtVisits BY <1>2, <1>4, <2>1
    <3> QED BY <1>2, <3>1 DEF RunOK, AllCustomers, OfKind
  <2>2. CASE at[w] > AtVisits + 2 /\ Program[at[w]].kind # "job"
    <3>1. at[w] > AtVisits BY <1>2, <1>4, <2>2
    <3>2. whole[w] \subseteq AllJobs BY <1>2, <3>1 DEF RunOK
    <3> QED BY <1>8, <2>2, <3>2 DEF AllJobs, OfKind
  <2> QED BY <1>3, <2>1, <2>2
<1> HIDE DEF U, UpsertBatch
<1>10. RawTypes'
  <2>1. naming' \in [Entity -> SUBSET Entity]
    <3>1. naming \in [Entity -> SUBSET Entity] BY DEF EntityTypes, RawTypes
    <3>2. \A e \in Entity : OfKind(view[w][e], Program[at[w]].to) \subseteq Entity
      BY <1>7 DEF OfKind
    <3> QED BY <1>6, <3>1, <3>2
  <2>2. rawPhone' \subseteq OfKind(stored', {"customer"})
    BY <1>6, <1>9 DEF EntityTypes, RawTypes, OfKind
  <2>3. stored' \subseteq Entity /\ fresh' \subseteq stored'
    BY <1>6, <1>8 DEF EntityTypes, RawTypes
  <2> QED BY <2>1, <2>2, <2>3 DEF RawTypes
<1>11. CrmTypes' /\ PlatformTypes' /\ DebtTypes'
  BY <1>6 DEF EntityTypes, CrmTypes, PlatformTypes, DebtTypes, crmState, platState
<1>12. late' \in [Worker -> SUBSET Entity] /\ \A x \in Worker : late'[x] = {}
  <2>1. \A x \in Worker : ~Normalizes(x) BY <1>2, <1>5
  <2> QED BY <1>6, <2>1
<1>13. scope' = [scope EXCEPT ![w] = scope[w]] BY <1>2, <1>6 DEF RunTypes
<1>14. RunTypes' BY <1>1, <1>2, <1>5, <1>6, <1>7, <1>12, <1>13, QuietRun
<1> QED BY <1>10, <1>11, <1>14 DEF EntityTypes

\* A run begins to normalize.
LEMMA BeginPassTypes ==
  ASSUME EntityTypes, NEW w \in Worker, BeginNormalize(w)
  PROVE  EntityTypes'
<1> DEFINE S == IF Stranded THEN Entity ELSE fresh
           none == [e \in Entity |-> {}]
<1>1. at[w] # 0 /\ Program[at[w]].do = "begin" BY DEF BeginNormalize, At
<1>2. at[w] \in 1 .. AtFinish /\ RunTypes BY <1>1, RunAt DEF EntityTypes
<1>3. at[w] = AtBegin BY <1>1, <1>2, Places
<1>4. /\ scope' = [scope EXCEPT ![w] = S] /\ late' = [late EXCEPT ![w] = {}]
      /\ hand' = [hand EXCEPT ![w] = {}] /\ whole' = [whole EXCEPT ![w] = {}]
      /\ view' = [view EXCEPT ![w] = none] /\ owed' = owed \ whole[w] /\ Following(w)
      /\ UNCHANGED <<crmState, rawState, platState, cut, task, edits, entityFaults>>
  BY DEF BeginNormalize
<1>5. S \in SUBSET Entity /\ none \in [Entity -> SUBSET Entity] BY DEF EntityTypes, RawTypes
<1>6. late' \in [Worker -> SUBSET Entity] /\ \A x \in Worker : late'[x] = {}
  BY <1>2, <1>4 DEF RunTypes, RunOK
<1>7. CrmTypes' /\ RawTypes' /\ PlatformTypes' /\ DebtTypes'
  BY <1>4 DEF EntityTypes, CrmTypes, RawTypes, PlatformTypes, DebtTypes, crmState, rawState, platState
<1> HIDE DEF S, none, BeginNormalize
<1>8. at[w] >= AtBegin /\ task' = task BY <1>3, <1>4, ProgramShape
<1>9. {} \in SUBSET Entity /\ {} \in SUBSET AllJobs /\ {} \subseteq stored' OBVIOUS
<1>10. RunTypes' BY <1>1, <1>2, <1>4, <1>5, <1>6, <1>8, <1>9, PassRun
<1> QED BY <1>7, <1>10 DEF EntityTypes

\* A pass loads rows.
LEMMA LoadTypes ==
  ASSUME EntityTypes, NEW w \in Worker, at[w] # 0, Program[at[w]].do \in {"read", "reread"},
         NEW X \in SUBSET stored, Load(w, X)
  PROVE  EntityTypes'
<1> DEFINE H == hand[w] \cup X
           V == [e \in Entity |-> IF e \in X THEN naming[e] ELSE view[w][e]]
<1>1. /\ at[w] \in 1 .. AtFinish /\ RunTypes /\ RunOK(w)
      /\ whole' = whole => whole' = [whole EXCEPT ![w] = whole[w]]
      /\ scope' = scope => scope' = [scope EXCEPT ![w] = scope[w]]
      /\ late' = late => late' \in [Worker -> SUBSET Entity] /\ \A x \in Worker : late'[x] = {}
  BY RunAt DEF EntityTypes
<1>2. /\ hand' = [hand EXCEPT ![w] = H] /\ view' = [view EXCEPT ![w] = V] /\ Following(w)
      /\ UNCHANGED <<crmState, rawState, platState, owed, cut, task, whole, scope, late, edits,
                     entityFaults>>
  BY DEF Load
<1>3. at[w] > AtBegin BY <1>1, Places
<1>4. /\ AtVisits \in Nat /\ AtBegin \in Nat /\ AtVisits + 3 <= AtBegin /\ AtFinish \in Nat
  BY ProgramShape
<1>5. at[w] >= AtBegin /\ at[w] > AtVisits BY <1>1, <1>3, <1>4
<1>6. H \in SUBSET Entity /\ V \in [Entity -> SUBSET Entity] /\ H \subseteq stored
  BY <1>1, <1>3 DEF EntityTypes, RawTypes, RunTypes, RunOK
<1>7. whole[w] \in SUBSET AllJobs /\ scope[w] \in SUBSET Entity
  BY <1>1, <1>5 DEF RunOK, RunTypes
<1>8. CrmTypes' /\ RawTypes' /\ PlatformTypes' /\ DebtTypes'
  BY <1>2 DEF EntityTypes, CrmTypes, RawTypes, PlatformTypes, DebtTypes, crmState, rawState, platState
<1> HIDE DEF H, V, Load
<1>9. H \subseteq stored' /\ task' = task BY <1>2, <1>6 DEF rawState
<1>10. RunTypes' BY <1>1, <1>2, <1>5, <1>6, <1>7, <1>9, PassRun
<1> QED BY <1>8, <1>10 DEF EntityTypes

\* A run reads raw rows.
LEMMA ReadTypes ==
  ASSUME EntityTypes, NEW w \in Worker, ReadJobs(w) \/ ReadVisits(w)
  PROVE  EntityTypes'
<1>1. CASE ReadJobs(w)
  <2>1. OfKind(stored, {"job", "contact"}) \in SUBSET stored BY DEF OfKind
  <2> QED BY <1>1, <2>1, LoadTypes DEF ReadJobs, At
<1>2. CASE ReadVisits(w)
  <2>1. OfKind(stored, {"visit"}) \cap Above(w) \in SUBSET stored BY DEF OfKind
  <2> QED BY <1>2, <2>1, LoadTypes DEF ReadVisits, At
<1> QED BY <1>1, <1>2

\* What a pass has before it, in all its forms.
LEMMA PassAt ==
  ASSUME EntityTypes, NEW w \in Worker, at[w] # 0,
         Program[at[w]].do \in {"rows", "links"}, Following(w),
         UNCHANGED <<crmState, rawState, owed, cut, task, hand, view, whole, scope, late, newly, edits,
                     entityFaults>>
  PROVE  /\ CrmTypes' /\ RawTypes' /\ DebtTypes' /\ RunTypes'
         /\ at[w] > AtBegin /\ Program[at[w]] \in PassCode /\ hand[w] \subseteq stored
<1>1. /\ at[w] \in 1 .. AtFinish /\ RunTypes /\ RunOK(w)
      /\ scope' = scope => scope' = [scope EXCEPT ![w] = scope[w]]
      /\ late' = late => late' \in [Worker -> SUBSET Entity] /\ \A x \in Worker : late'[x] = {}
  BY RunAt DEF EntityTypes
<1>2. at[w] > AtBegin /\ Program[at[w]] \in PassCode
  <2>1. Program[at[w]].do \in {"read", "reread", "rows", "links"} OBVIOUS
  <2> QED BY <1>1, <2>1, Places
<1>3. hand[w] \subseteq stored BY <1>1, <1>2 DEF RunOK
<1>4. CrmTypes' /\ RawTypes' /\ DebtTypes'
  BY DEF EntityTypes, CrmTypes, RawTypes, DebtTypes, crmState, rawState
<1>5. AtVisits \in Nat /\ AtBegin \in Nat /\ AtVisits + 3 <= AtBegin BY ProgramShape
<1>6. at[w] # AtVisits /\ at[w] # AtBegin /\ at[w] # AtVisits + 1 BY <1>1, <1>2, <1>5
<1>7. /\ hand[w] \subseteq stored' /\ scope[w] \in SUBSET Entity /\ Program[at[w]].do # "finish"
      /\ UNCHANGED <<task, hand, view, whole>> /\ scope' = [scope EXCEPT ![w] = scope[w]]
      /\ late' \in [Worker -> SUBSET Entity] /\ \A x \in Worker : late'[x] = {}
  BY <1>1, <1>3 DEF rawState, RunTypes
<1>8. RunTypes' BY <1>1, <1>6, <1>7, QuietRun
<1> QED BY <1>2, <1>3, <1>4, <1>8

\* The rows of a pass are raw rows, and what it resolves is on the platform.
LEMMA PassRows ==
  ASSUME EntityTypes, NEW w \in Worker, NEW i, hand[w] \subseteq stored
  PROVE  /\ RowsOf(w, i) \subseteq OfKind(stored, {i.kind})
         /\ \A e : Resolved(w, i, e) \subseteq shown
         /\ i.to = {} => \A e : Resolved(w, i, e) = {}
<1>1. RowsOf(w, i) \subseteq OfKind(stored, {i.kind}) BY DEF RowsOf, OfKind
<1>2. \A e : Resolved(w, i, e) \subseteq shown BY DEF Resolved
<1>3. ASSUME i.to = {}, NEW e PROVE Resolved(w, i, e) = {}
  <2>1. Payload(w, i, e) = {} BY <1>3 DEF Payload, OfKind
  <2> QED BY <2>1 DEF Resolved
<1> QED BY <1>1, <1>2, <1>3

\* A pass writes platform rows.
LEMMA RowTypes ==
  ASSUME EntityTypes, NEW w \in Worker, WriteRows(w)
  PROVE  EntityTypes'
<1> DEFINE i == Program[at[w]]
           rows == {e \in RowsOf(w, i) : /\ Canon(w, e) = e
                                         /\ i.kind = "comment" => Resolved(w, i, e) # {}}
           dropped == {c \in OfKind(hand[w], {"contact"}) : i.kind = "contact" /\ Canon(w, c) # c}
<1>1. at[w] # 0 /\ i.do = "rows" BY DEF WriteRows, At
<1>2. /\ shown' = (shown \cup rows) \ dropped
      /\ edge' = {x \in edge : /\ x[1] \notin dropped /\ x[2] \notin dropped
                               /\ ~(x[1] \in rows /\ x[2][1] \in i.to)}
                 \cup UNION {{<<e, t>> : t \in Resolved(w, i, e)} : e \in rows}
      /\ phone' = PhoneKnown(rows) /\ cancelled' = cancelled \ rows /\ Following(w)
      /\ UNCHANGED <<crmState, rawState, owed, cut, task, hand, view, whole, scope, late, newly,
                     edits, entityFaults>>
  BY DEF WriteRows
<1> HIDE DEF WriteRows
<1>3. /\ CrmTypes' /\ RawTypes' /\ DebtTypes' /\ RunTypes'
      /\ i \in PassCode /\ hand[w] \subseteq stored
  <2>1. i.do \in {"rows", "links"} BY <1>1
  <2> QED BY <1>1, <1>2, <2>1, PassAt
<1>4. dropped # {} => i.to = {} BY <1>1, <1>3 DEF PassCode
<1>5. /\ rows \subseteq stored /\ (\A e : Resolved(w, i, e) \subseteq shown)
      /\ (i.to = {} => \A e : Resolved(w, i, e) = {}) /\ rows \cap dropped = {}
      /\ \A c \in dropped : c[1] = "contact"
  BY <1>3, PassRows DEF OfKind
<1>6. \A e : \A t \in Resolved(w, i, e) : t \in shown \ dropped
  <2> HIDE DEF dropped
  <2> QED BY <1>4, <1>5
<1> HIDE DEF rows, dropped, i
<1>7. /\ stored \subseteq Entity /\ shown \subseteq Entity /\ edge \subseteq shown \X shown
      /\ rawPhone \subseteq OfKind(stored, {"customer"})
      /\ phone \subseteq OfKind(shown, {"customer"}) /\ cancelled \subseteq OfKind(shown, {"visit"})
  BY DEF EntityTypes, RawTypes, PlatformTypes
<1>8. shown' \subseteq Entity BY <1>2, <1>5, <1>7
<1>9. edge' \subseteq shown' \X shown'
  <2>1. ASSUME NEW x \in edge, x[1] \notin dropped, x[2] \notin dropped
        PROVE  x \in shown' \X shown'
    <3>1. PICK a \in shown, b \in shown : x = <<a, b>> BY <1>7
    <3> QED BY <1>2, <2>1, <3>1
  <2>2. ASSUME NEW e \in rows, NEW t \in Resolved(w, i, e) PROVE <<e, t>> \in shown' \X shown'
    BY <1>2, <1>5, <1>6
  <2> QED BY <1>2, <2>1, <2>2
<1>10. phone' \subseteq OfKind(shown', {"customer"})
  <2>1. phone' \subseteq phone \cup (rawPhone \cap rows) BY <1>2 DEF PhoneKnown
  <2> QED BY <1>2, <1>5, <1>7, <2>1 DEF OfKind
<1>11. cancelled' \subseteq OfKind(shown', {"visit"}) BY <1>2, <1>5, <1>7 DEF OfKind
<1>12. PlatformTypes' BY <1>8, <1>9, <1>10, <1>11 DEF PlatformTypes
<1> QED BY <1>3, <1>12 DEF EntityTypes

\* A pass writes links.
LEMMA LinkTypes ==
  ASSUME EntityTypes, NEW w \in Worker, WriteLinks(w)
  PROVE  EntityTypes'
<1> DEFINE i == Program[at[w]]
           pairs == UNION {{<<Canon(w, e), t>> : t \in Resolved(w, i, e)} : e \in RowsOf(w, i)}
<1>1. at[w] # 0 /\ i.do = "links" BY DEF WriteLinks, At
<1>2. /\ edge' = {x \in edge : ~(x[1] \in Parents(w, i) /\ x[2][1] \in i.to)}
                 \cup {x \in pairs : x[1] \in shown}
      /\ Following(w)
      /\ UNCHANGED <<crmState, rawState, shown, phone, cancelled, owed, cut, task, hand, view,
                     whole, scope, late, newly, edits, entityFaults>>
  BY DEF WriteLinks
<1> HIDE DEF WriteLinks
<1>3. /\ CrmTypes' /\ RawTypes' /\ DebtTypes' /\ RunTypes' /\ hand[w] \subseteq stored
  <2>1. i.do \in {"rows", "links"} BY <1>1
  <2> QED BY <1>1, <1>2, <2>1, PassAt
<1>4. \A x \in pairs : x[1] \in shown => x \in shown \X shown
  <2>1. \A e : Resolved(w, i, e) \subseteq shown BY <1>3, PassRows
  <2> QED BY <2>1
<1> HIDE DEF pairs, i
<1>5. edge' \subseteq shown \X shown BY <1>2, <1>4 DEF EntityTypes, PlatformTypes
<1>6. PlatformTypes' BY <1>2, <1>5 DEF EntityTypes, PlatformTypes
<1> QED BY <1>3, <1>6 DEF EntityTypes

\* A run finishes.
LEMMA FinishTypes ==
  ASSUME EntityTypes, NEW w \in Worker, FinishNormalize(w)
  PROVE  EntityTypes'
<1>1. /\ at[w] # 0 /\ fresh' = late[w] /\ Rest(w)
      /\ UNCHANGED <<crmState, stored, naming, rawPhone, platState, owed, cut, edits, entityFaults>>
  BY DEF FinishNormalize, At
<1> HIDE DEF FinishNormalize
<1>2. late[w] = {} BY DEF EntityTypes, RunTypes, RunOK
<1>3. CrmTypes' /\ RawTypes' /\ PlatformTypes' /\ DebtTypes'
  BY <1>1, <1>2 DEF EntityTypes, CrmTypes, RawTypes, PlatformTypes, DebtTypes, crmState, platState
<1>4. RunTypes' BY <1>1, RestRun DEF EntityTypes
<1> QED BY <1>3, <1>4 DEF EntityTypes

\* A run dies.
LEMMA DieTypes ==
  ASSUME EntityTypes, NEW w \in Worker, RunDies(w)
  PROVE  EntityTypes'
<1>1. /\ at[w] # 0 /\ EntityFault /\ Rest(w)
      /\ owed' = IF Normalizes(w) THEN owed ELSE owed \cup task[w]
      /\ cut' = IF At(w, "cancel") THEN cut \cup scope[w] ELSE cut
      /\ UNCHANGED <<crmState, rawState, platState, edits>>
  BY DEF RunDies
<1> HIDE DEF RunDies
<1>2. /\ at[w] \in 1 .. AtFinish /\ RunTypes /\ RunOK(w) BY <1>1, RunAt DEF EntityTypes
<1>3. At(w, "cancel") => scope[w] \subseteq AllVisits
  <2>1. At(w, "cancel") => at[w] = AtVisits + 2 BY <1>2, Places DEF At
  <2> QED BY <1>2, <2>1 DEF RunOK
<1>4. DebtTypes' BY <1>1, <1>2, <1>3 DEF EntityTypes, DebtTypes, RunOK
<1>5. entityFaults' \in 0 .. MaxEntityFaults BY <1>1, FaultsTyped DEF EntityTypes, CrmTypes
<1>6. CrmTypes' /\ RawTypes' /\ PlatformTypes'
  BY <1>1, <1>5 DEF EntityTypes, CrmTypes, RawTypes, PlatformTypes, crmState, rawState, platState
<1>7. RunTypes' BY <1>1, <1>2, RestRun
<1> QED BY <1>4, <1>6, <1>7 DEF EntityTypes

\* Types hold after every step.
LEMMA EntityTypesStep ==
  ASSUME ~RunsOverlap, EntityTypes, [EntityNext]_entityVars
  PROVE  EntityTypes'
<1>1. CASE UNCHANGED entityVars
  <2>1. UNCHANGED <<book, gone, stored, naming, fresh, rawPhone, shown, edge, phone, cancelled>>
    BY <1>1 DEF entityVars, crmState, rawState, platState
  <2>2. UNCHANGED <<owed, cut, at, task, hand, view, whole, scope, late, edits, entityFaults>>
    BY <1>1 DEF entityVars, runState
  <2>3. CrmTypes' /\ RawTypes' /\ PlatformTypes' /\ DebtTypes'
    BY <2>1, <2>2 DEF EntityTypes, CrmTypes, RawTypes, PlatformTypes, DebtTypes
  <2>4. RunTypes' BY <2>1, <2>2 DEF EntityTypes, RunTypes, Single, RunOK
  <2> QED BY <2>3, <2>4 DEF EntityTypes
<1>2. ASSUME NEW e \in Entity, NEW t \in Book[e], Assign(e, t) PROVE EntityTypes'
  BY <1>2, AssignTypes
<1>3. ASSUME NEW v \in OfKind(Entity, {"visit"}), DeleteVisit(v) PROVE EntityTypes'
  BY <1>3, DeleteTypes DEF AllVisits
<1>4. ASSUME NEW w \in Worker, NEW J \in SUBSET OfKind(Entity, {"job"}) \ {{}}, Begin(w, J)
      PROVE  EntityTypes'
  BY <1>4, BeginTypes DEF AllJobs
<1>5. ASSUME NEW w \in Worker, FanOutStep(w) PROVE EntityTypes'
  BY <1>5, DetailTypes, PeopleTypes, VisitListTypes, PruneTypes, CancelTypes, PutTypes
     DEF FanOutStep
<1>6. ASSUME NEW w \in Worker, NormalizeStep(w) PROVE EntityTypes'
  BY <1>6, BeginPassTypes, ReadTypes, RowTypes, LinkTypes, FinishTypes DEF NormalizeStep
<1>7. ASSUME NEW w \in Worker, RunDies(w) PROVE EntityTypes' BY <1>7, DieTypes
<1> QED BY <1>1, <1>2, <1>3, <1>4, <1>5, <1>6, <1>7 DEF EntityNext

\* Types hold at the start.
LEMMA EntityTypesInit == EntityInit => EntityTypes
<1> SUFFICES ASSUME EntityInit PROVE EntityTypes OBVIOUS
<1>1. CrmTypes BY EntityAssumption DEF EntityInit, CrmTypes
<1>2. RawTypes /\ PlatformTypes /\ DebtTypes
  BY DEF EntityInit, RawTypes, PlatformTypes, DebtTypes
<1>3. RunTypes
  <2>1. AtFinish \in Nat /\ AtVisits \in Nat /\ AtBegin \in Nat BY ProgramShape
  <2>2. /\ 0 \in 0 .. AtFinish /\ 0 <= AtVisits /\ ~(0 > AtVisits) /\ ~(0 > AtBegin)
        /\ 0 # AtVisits + 2
    BY <2>1
  <2>3. \A w \in Worker : RunOK(w) BY <2>2 DEF EntityInit, RunOK
  <2>4. Single BY DEF EntityInit, Single
  <2> QED BY <2>3, <2>4 DEF EntityInit, RunTypes
<1> QED BY <1>1, <1>2, <1>3 DEF EntityTypes

\* As long as runs do not overlap, every variable of EntitySync keeps its type:
\* a foreign key joins two platform rows, a phone number belongs to a customer,
\* only visits are cancelled, and the raw rows above the watermark are stored.
THEOREM EntityTyped ==
  ASSUME ~RunsOverlap
  PROVE  EntitySpec => []EntityTypeOK
<1>1. EntityInit => EntityTypes BY EntityTypesInit
<1>2. EntityTypes /\ [EntityNext]_entityVars => EntityTypes' BY EntityTypesStep
<1>3. EntityTypes => EntityTypeOK
  <2> SUFFICES ASSUME EntityTypes PROVE EntityTypeOK OBVIOUS
  <2>1. at \in [Worker -> 0 .. Len(Program)]
    BY DEF EntityTypes, RunTypes, RunOK, AtFinish
  <2>2. /\ phone \subseteq shown /\ task \in [Worker -> SUBSET Entity]
        /\ hand \in [Worker -> SUBSET Entity]
    BY DEF EntityTypes, RunTypes, PlatformTypes, OfKind
  <2> QED BY <2>1, <2>2 DEF EntityTypes, EntityTypeOK, CrmTypes, RawTypes, PlatformTypes, DebtTypes,
                            AllJobs, AllVisits
<1> QED BY <1>1, <1>2, <1>3, PTL DEF EntitySpec

-----------------------------------------------------------------------------
(* The prune.                                                              *)

\* Steps that come to neither statement of the prune, and do not leave the
\* second.
LEMMA PruneFrame ==
  ASSUME PruneInv, Faithful', UNCHANGED <<gone, cut>>, cancelled' \subseteq cancelled,
         \A x \in Worker : at[x] # AtVisits + 2,
         \A x \in Worker : at'[x] # AtVisits + 1 /\ at'[x] # AtVisits + 2,
         \A v \in OfKind(shown', {"visit"}) \ stored' :
           v \in OfKind(shown, {"visit"}) \ stored /\ (v \in cancelled => v \in cancelled')
  PROVE  PruneInv'
<1>1. cancelled' \subseteq gone' BY DEF PruneInv
<1>2. ListsAreWhole' BY DEF ListsAreWhole
<1>3. ASSUME NEW v \in OfKind(shown', {"visit"}) \ stored' PROVE v \in cancelled' \cup cut'
  <2>1. v \in OfKind(shown, {"visit"}) \ stored /\ (v \in cancelled => v \in cancelled') OBVIOUS
  <2>2. v \in cancelled \cup cut BY <2>1 DEF PruneInv, PrunedTold
  <2> QED BY <2>1, <2>2
<1>4. PrunedTold' BY <1>3 DEF PrunedTold
<1> QED BY <1>1, <1>2, <1>4 DEF PruneInv

\* A run that is not at the visits does not get to the pruning.
LEMMA Elsewhere ==
  ASSUME RunTypes, NEW w \in Worker, at[w] # 0, at[w] # AtVisits, at[w] # AtVisits + 1,
         (Program[at[w]].do # "finish" /\ Following(w)) \/ Rest(w)
  PROVE  \A x \in Worker : at'[x] # AtVisits + 1 /\ at'[x] # AtVisits + 2
<1>1. /\ at[w] \in 1 .. AtFinish /\ \A x \in Worker : at[x] # 0 => x = w
  BY RunAt
<1>2. AtVisits \in Nat /\ AtFinish \in Nat BY ProgramShape
<1>3. \A x \in Worker : x # w => at'[x] = 0 BY <1>1 DEF Following, Rest, RunTypes
<1>4. at'[w] # AtVisits + 1 /\ at'[w] # AtVisits + 2
  <2>1. CASE Rest(w)
    <3>1. at'[w] = 0 BY <2>1 DEF Rest, RunTypes
    <3> QED BY <1>2, <3>1
  <2>2. CASE Program[at[w]].do # "finish" /\ Following(w)
    <3> DEFINE a == NextStatement[at[w]]
    <3>1. /\ at' = [at EXCEPT ![w] = a] /\ a \in 0 .. AtFinish /\ a > at[w]
          /\ at[w] < AtVisits => a <= AtVisits
      BY <2>2, Onward
    <3>2. at'[w] = a BY <3>1 DEF RunTypes
    <3> HIDE DEF a
    <3> QED BY <1>1, <1>2, <3>1, <3>2
  <2> QED BY <2>1, <2>2
<1> QED BY <1>2, <1>3, <1>4

\* What runs see of ServiceTrade is faithful.
LEMMA SeenFaithful ==
  ASSUME EntityTypes, Faithful, UNCHANGED <<book, naming>>, NEW w \in Worker,
         NEW V \in [Entity -> SUBSET Entity], view' = [view EXCEPT ![w] = V],
         \A v \in AllVisits : V[v] \subseteq Book[v]
  PROVE  Faithful'
<1>1. view \in [Worker -> [Entity -> SUBSET Entity]] BY DEF EntityTypes, RunTypes
<1>2. \A x \in Worker : \A v \in AllVisits : view'[x][v] \subseteq Book[v]
  BY <1>1 DEF Faithful
<1> QED BY <1>2 DEF Faithful

\* Receiving records reads them as ServiceTrade has them.
LEMMA ReceiveFaithful ==
  ASSUME EntityTypes, Faithful, NEW w \in Worker, NEW X, Receive(w, X)
  PROVE  Faithful'
<1> DEFINE V == [e \in Entity |-> IF e \in X THEN book[e] ELSE view[w][e]]
<1>1. view' = [view EXCEPT ![w] = V] /\ UNCHANGED <<book, naming>>
  BY DEF Receive, crmState, rawState
<1>2. V \in [Entity -> SUBSET Entity] BY DEF EntityTypes, CrmTypes, RunTypes
<1>3. \A v \in AllVisits : V[v] \subseteq Book[v]
  <2>1. \A v \in AllVisits : v \in Entity BY DEF AllVisits, OfKind
  <2> QED BY <2>1 DEF Faithful
<1> HIDE DEF V, Receive
<1> QED BY <1>1, <1>2, <1>3, SeenFaithful

\* A reference changed in ServiceTrade.
LEMMA AssignPrune ==
  ASSUME EntityTypes, PruneInv, "job" \notin Loose, NEW e \in Entity, NEW t \in Book[e], Assign(e, t)
  PROVE  PruneInv'
<1>1. /\ book' = [book EXCEPT ![e] = IF t \in @ THEN @ \ {t} ELSE @ \cup {t}] /\ t[1] # "job"
      /\ UNCHANGED <<gone, rawState, platState, owed, cut, runState>>
  BY DEF Assign
<1> HIDE DEF Assign
<1>2. book \in [Entity -> SUBSET Entity] BY DEF EntityTypes, CrmTypes
<1>3. Faithful'
  <2>1. ASSUME NEW f \in Entity
        PROVE  book'[f] \subseteq Book[f] /\ OfKind(Book[f], {"job"}) \subseteq book'[f]
    <3>1. book[f] \subseteq Book[f] /\ OfKind(Book[f], {"job"}) \subseteq book[f]
      BY DEF PruneInv, Faithful
    <3>2. CASE f # e BY <1>1, <1>2, <3>1, <3>2
    <3>3. CASE f = e
      <4>1. book'[f] \in {book[e] \ {t}, book[e] \cup {t}} BY <1>1, <1>2, <3>3
      <4> QED BY <1>1, <3>1, <3>3, <4>1 DEF OfKind
    <3> QED BY <3>2, <3>3
  <2> QED BY <1>1, <2>1 DEF PruneInv, Faithful, rawState, runState
<1>4. UNCHANGED <<gone, stored, shown, cancelled, cut, at, hand, whole, scope>>
  BY <1>1 DEF rawState, platState, runState
<1> QED BY <1>3, <1>4 DEF PruneInv, ListsAreWhole, PrunedTold

\* A record deleted in ServiceTrade.
LEMMA DeletePrune ==
  ASSUME PruneInv, NEW v \in AllVisits, DeleteVisit(v)
  PROVE  PruneInv'
<1>1. gone' = gone \cup {v}
      /\ UNCHANGED <<book, naming, stored, shown, cancelled, cut, at, hand, view, whole, scope>>
  BY DEF DeleteVisit, rawState, platState, runState
<1> HIDE DEF DeleteVisit
<1>2. Faithful' BY <1>1 DEF PruneInv, Faithful
<1>3. cancelled' \subseteq gone' /\ ListsAreWhole' BY <1>1 DEF PruneInv, ListsAreWhole
<1>4. PrunedTold' BY <1>1 DEF PruneInv, PrunedTold
<1> QED BY <1>2, <1>3, <1>4 DEF PruneInv

\* A run begins.
LEMMA BeginPrune ==
  ASSUME EntityTypes, ~RunsOverlap, PruneInv, NEW w \in Worker, NEW J, Begin(w, J)
  PROVE  PruneInv'
<1>1. /\ AtWork = {} /\ at' = [at EXCEPT ![w] = 1]
      /\ UNCHANGED <<book, gone, naming, stored, shown, cancelled, cut, view>>
  BY DEF Begin, crmState, rawState, platState
<1> HIDE DEF Begin
<1>2. AtVisits \in Nat /\ 2 <= AtVisits BY ProgramShape
<1>3. \A x \in Worker : at[x] = 0 BY <1>1 DEF AtWork
<1>4. \A x \in Worker : at'[x] \in {0, 1} BY <1>1, <1>3 DEF EntityTypes, RunTypes
<1>5. 0 # AtVisits + 1 /\ 0 # AtVisits + 2 /\ 1 # AtVisits + 1 /\ 1 # AtVisits + 2 BY <1>2
<1>6. /\ \A x \in Worker : at[x] # AtVisits + 2
      /\ \A x \in Worker : at'[x] # AtVisits + 1 /\ at'[x] # AtVisits + 2
  BY <1>3, <1>4, <1>5
<1>7. Faithful' BY <1>1 DEF PruneInv, Faithful
<1> QED BY <1>1, <1>6, <1>7, PruneFrame

\* Away from the visits, no run is about to prune or to cancel.
LEMMA OffThePrune ==
  ASSUME RunTypes, NEW w \in Worker, at[w] # 0,
         Program[at[w]].do \notin {"visits", "prune", "cancel"}
  PROVE  at[w] # AtVisits /\ at[w] # AtVisits + 1 /\ \A x \in Worker : at[x] # AtVisits + 2
<1>1. /\ Program[AtVisits].do = "visits" /\ Program[AtVisits + 1].do = "prune"
      /\ Program[AtVisits + 2].do = "cancel" /\ AtVisits \in Nat
  BY ProgramShape DEF Do
<1>2. \A x \in Worker : at[x] # 0 => x = w BY RunAt
<1>3. AtVisits + 2 # 0 BY <1>1
<1> QED BY <1>1, <1>2, <1>3

\* The same for a step of a run that leaves the platform's visits as they are.
LEMMA QuietPrune ==
  ASSUME EntityTypes, PruneInv, Faithful', NEW w \in Worker, at[w] # 0,
         Program[at[w]].do \notin {"visits", "prune", "cancel"},
         (Program[at[w]].do # "finish" /\ Following(w)) \/ Rest(w),
         UNCHANGED <<gone, cut, cancelled, shown>>, stored \subseteq stored'
  PROVE  PruneInv'
<1>1. /\ \A x \in Worker : at[x] # AtVisits + 2
      /\ \A x \in Worker : at'[x] # AtVisits + 1 /\ at'[x] # AtVisits + 2
  BY OffThePrune, Elsewhere DEF EntityTypes
<1>2. \A v \in OfKind(shown', {"visit"}) \ stored' :
           v \in OfKind(shown, {"visit"}) \ stored /\ (v \in cancelled => v \in cancelled')
  OBVIOUS
<1> QED BY <1>1, <1>2, PruneFrame

\* A run fetches something else than visits.
LEMMA FetchPrune ==
  ASSUME EntityTypes, PruneInv, NEW w \in Worker, Detail(w) \/ Comments(w) \/ People(w)
  PROVE  PruneInv'
<1>1. /\ at[w] # 0 /\ Program[at[w]].do \in {"details", "comments", "people"}
      /\ Following(w) /\ UNCHANGED <<book, naming, gone, cut, cancelled, shown, stored>>
  BY DEF Detail, Comments, People, Receive, At, crmState, rawState, platState
<1>2. Faithful /\ RunTypes BY DEF PruneInv, EntityTypes
<1>3. Faithful'
  <2>1. CASE Detail(w) \/ Comments(w)
    <3>1. \E X : Receive(w, X) BY <2>1 DEF Detail, Comments
    <3> QED BY <1>2, <3>1, ReceiveFaithful
  <2>2. CASE People(w)
    <3>1. PICK listed \in SUBSET OfKind(hand[w], {"customer"}) :
            view' = [view EXCEPT ![w] = [e \in Entity |->
                       IF e \in OfKind(hand[w], {"contact"}) \cup Down(listed, {"contact"})
                       THEN Embedded(w, e) \cup (IF e \in Down(listed, {"contact"}) THEN book[e] ELSE {})
                       ELSE @[e]]]
      BY <2>2 DEF People
    <3> DEFINE V == [e \in Entity |->
                       IF e \in OfKind(hand[w], {"contact"}) \cup Down(listed, {"contact"})
                       THEN Embedded(w, e) \cup (IF e \in Down(listed, {"contact"}) THEN book[e] ELSE {})
                       ELSE view[w][e]]
    <3>2. view' = [view EXCEPT ![w] = V] BY <3>1
    <3>3. view' \in [Worker -> [Entity -> SUBSET Entity]]
      <4>1. EntityTypes' BY <2>2, PeopleTypes
      <4> QED BY <4>1 DEF EntityTypes, RunTypes
    <3>4. V \in [Entity -> SUBSET Entity]
      <4> HIDE DEF V
      <4> QED BY <1>2, <3>2, <3>3 DEF RunTypes
    <3>5. ASSUME NEW v \in AllVisits PROVE V[v] \subseteq Book[v]
      <4>1. /\ v \in Entity /\ v \notin OfKind(hand[w], {"contact"})
            /\ v \notin Down(listed, {"contact"})
        BY DEF AllVisits, OfKind, Down
      <4>2. V[v] = view[w][v] BY <4>1
      <4> QED BY <4>2, <1>2 DEF Faithful
    <3> HIDE DEF V
    <3> QED BY <1>1, <1>2, <3>2, <3>4, <3>5, SeenFaithful
  <2> QED BY <2>1, <2>2
<1>4. stored \subseteq stored' BY <1>1
<1>5. Program[at[w]].do \notin {"visits", "prune", "cancel"} /\ Program[at[w]].do # "finish"
  BY <1>1
<1> QED BY <1>1, <1>3, <1>4, <1>5, QuietPrune

\* A run lists the visits of its jobs.
LEMMA VisitListPrune ==
  ASSUME EntityTypes, PruneInv, NEW w \in Worker, VisitList(w)
  PROVE  PruneInv'
<1>1. /\ at[w] # 0 /\ Program[at[w]].do = "visits" BY DEF VisitList, At
<1>2. /\ at[w] \in 1 .. AtFinish /\ RunTypes /\ RunOK(w) /\ \A x \in Worker : at[x] # 0 => x = w
  BY <1>1, RunAt DEF EntityTypes
<1>3. at[w] = AtVisits /\ AtVisits \in Nat
  <2>1. at[w] = AtVisits BY <1>1, <1>2, Places
  <2> QED BY <2>1, ProgramShape
<1>13. PICK full \in SUBSET task[w] : \E X :
        /\ whole' = [whole EXCEPT ![w] = full] /\ Receive(w, X)
        /\ Down(full, {"visit"}) \subseteq X
  <2>1. PICK full \in SUBSET task[w] : \E some \in SUBSET Down(task[w] \ full, {"visit"}) :
        LET V == Down(full, {"visit"}) \cup some
            Q == Down(V, {"request"})
        IN /\ IF full = task[w] THEN UNCHANGED entityFaults ELSE EntityFault
           /\ whole' = [whole EXCEPT ![w] = full]
           /\ Receive(w, V \cup Up(V, {"technician", "office"}) \cup Q \cup Up(Q, {"line"}))
    BY DEF VisitList
  <2>2. PICK some \in SUBSET Down(task[w] \ full, {"visit"}) :
        LET V == Down(full, {"visit"}) \cup some
            Q == Down(V, {"request"})
        IN /\ whole' = [whole EXCEPT ![w] = full]
           /\ Receive(w, V \cup Up(V, {"technician", "office"}) \cup Q \cup Up(Q, {"line"}))
    BY <2>1
  <2> DEFINE V == Down(full, {"visit"}) \cup some
             Q == Down(V, {"request"})
             Y == V \cup Up(V, {"technician", "office"}) \cup Q \cup Up(Q, {"line"})
  <2>3. Receive(w, Y) BY <2>2
  <2>4. Down(full, {"visit"}) \subseteq Y OBVIOUS
  <2> HIDE DEF Y, Receive, VisitList
  <2> QED BY <2>2, <2>3, <2>4
<1>4. PICK X : /\ whole' = [whole EXCEPT ![w] = full] /\ Receive(w, X)
               /\ Down(full, {"visit"}) \subseteq X
  BY <1>13
<1>5. Faithful' BY <1>4, ReceiveFaithful DEF PruneInv
<1>6. /\ hand' = [hand EXCEPT ![w] = hand[w] \cup X] /\ Following(w)
      /\ UNCHANGED <<book, gone, stored, shown, cancelled, cut>>
  BY <1>4 DEF Receive, crmState, rawState, platState
<1> HIDE DEF VisitList
<1>7. /\ at'[w] = AtVisits + 1 /\ hand'[w] = hand[w] \cup X /\ whole'[w] = full
      /\ \A x \in Worker : x # w => at'[x] = 0
  <2>1. Program[at[w]].do # "finish" BY <1>1
  <2>2. at' = [at EXCEPT ![w] = NextStatement[at[w]]] /\ NextStatement[at[w]] = AtVisits + 1
    BY <1>1, <1>2, <1>3, <1>6, <2>1, Onward
  <2> QED BY <1>2, <1>4, <1>6, <2>2 DEF RunTypes
<1>8. ASSUME NEW v \in AllVisits, Book[v] \cap full # {} PROVE v \in hand'[w] \cup gone'
  <2>1. PICK j \in full : j \in Book[v] BY <1>8
  <2>2. j[1] = "job" BY <1>2, <2>1 DEF RunOK, AllJobs, OfKind
  <2>3. v \in Entity BY DEF AllVisits, OfKind
  <2>4. OfKind(Book[v], {"job"}) \subseteq book[v] BY <2>3 DEF PruneInv, Faithful
  <2>5. j \in book[v] BY <2>1, <2>2, <2>4 DEF OfKind
  <2>6. v \notin gone => v \in Down(full, {"visit"})
    BY <2>1, <2>3, <2>5 DEF Down, OfKind, AllVisits
  <2> QED BY <1>4, <1>6, <1>7, <2>6
<1>9. AtVisits + 1 # 0 /\ AtVisits + 2 # 0 /\ AtVisits + 1 # AtVisits + 2 /\ AtVisits # AtVisits + 2
  BY <1>3
<1>10. ListsAreWhole' BY <1>7, <1>8, <1>9 DEF ListsAreWhole
<1>11. PrunedTold'
  <2>1. \A x \in Worker : at[x] # AtVisits + 2 BY <1>2, <1>3, <1>9
  <2> QED BY <1>6, <2>1 DEF PruneInv, PrunedTold
<1>12. cancelled' \subseteq gone' BY <1>6 DEF PruneInv
<1> QED BY <1>5, <1>10, <1>11, <1>12 DEF PruneInv

\* A run prunes the visits that its complete lists do not have.
LEMMA PruneKeeps ==
  ASSUME EntityTypes, PruneInv, NEW w \in Worker, Prune(w)
  PROVE  PruneInv'
<1>1. /\ at[w] # 0 /\ Program[at[w]].do = "prune" BY DEF Prune, At
<1>2. /\ at[w] \in 1 .. AtFinish /\ RunTypes /\ \A x \in Worker : at[x] # 0 => x = w
  BY <1>1, RunAt DEF EntityTypes
<1>3. at[w] = AtVisits + 1 /\ AtVisits \in Nat
  <2>1. at[w] = AtVisits + 1 BY <1>1, <1>2, Places
  <2> QED BY <2>1, ProgramShape
<1>4. /\ stored' = stored \ Missing(w) /\ scope' = [scope EXCEPT ![w] = Missing(w)] /\ Following(w)
      /\ UNCHANGED <<book, gone, naming, shown, cancelled, cut, view>>
  BY DEF Prune, crmState, platState
<1> HIDE DEF Prune
<1>5. /\ at'[w] = AtVisits + 2 /\ scope'[w] = Missing(w)
      /\ \A x \in Worker : x # w => at'[x] = 0
  <2>1. Program[at[w]].do # "finish" BY <1>1
  <2>2. at' = [at EXCEPT ![w] = NextStatement[at[w]]] /\ NextStatement[at[w]] = AtVisits + 2
    BY <1>1, <1>2, <1>3, <1>4, <2>1, Onward
  <2> QED BY <1>2, <1>4, <2>2 DEF RunTypes
<1>6. Missing(w) \subseteq gone
  <2>1. ASSUME NEW v \in Missing(w) PROVE v \in gone
    <3>1. /\ v \in OfKind(stored, {"visit"}) /\ naming[v] \cap whole[w] # {} /\ v \notin hand[w]
      BY DEF Missing
    <3>2. v \in AllVisits BY <3>1 DEF EntityTypes, RawTypes, OfKind, AllVisits
    <3>3. naming[v] \subseteq Book[v] BY <3>2 DEF PruneInv, Faithful
    <3>4. Book[v] \cap whole[w] # {} BY <3>1, <3>3
    <3> QED BY <1>3, <3>1, <3>2, <3>4 DEF PruneInv, ListsAreWhole
  <2> QED BY <2>1
<1>7. AtVisits + 1 # 0 /\ AtVisits + 2 # 0 /\ AtVisits + 1 # AtVisits + 2 BY <1>3
<1>8. ListsAreWhole' BY <1>4, <1>5, <1>6, <1>7 DEF ListsAreWhole
<1>9. \A x \in Worker : at[x] # AtVisits + 2 BY <1>2, <1>3, <1>7
<1>10. PrunedTold' BY <1>4, <1>5, <1>9 DEF PruneInv, PrunedTold, OfKind
<1>11. Faithful' /\ cancelled' \subseteq gone' BY <1>4 DEF PruneInv, Faithful
<1> QED BY <1>8, <1>10, <1>11 DEF PruneInv

\* A run marks cancelled what it pruned.
LEMMA CancelKeeps ==
  ASSUME EntityTypes, PruneInv, NEW w \in Worker, CancelMissing(w)
  PROVE  PruneInv'
<1>1. /\ at[w] # 0 /\ Program[at[w]].do = "cancel" BY DEF CancelMissing, At
<1>2. /\ at[w] \in 1 .. AtFinish /\ RunTypes /\ \A x \in Worker : at[x] # 0 => x = w
  BY <1>1, RunAt DEF EntityTypes
<1>3. at[w] = AtVisits + 2 /\ AtVisits \in Nat
  <2>1. at[w] = AtVisits + 2 BY <1>1, <1>2, Places
  <2> QED BY <2>1, ProgramShape
<1>4. /\ cancelled' = cancelled \cup (scope[w] \cap shown) /\ Following(w)
      /\ UNCHANGED <<book, gone, naming, stored, shown, cut, view>>
  BY DEF CancelMissing, crmState, rawState
<1> HIDE DEF CancelMissing
<1>5. AtVisits + 2 # 0 /\ AtVisits + 2 # AtVisits /\ AtVisits + 2 # AtVisits + 1 BY <1>3
<1>6. \A x \in Worker : at'[x] # AtVisits + 1 /\ at'[x] # AtVisits + 2
  <2>1. Program[at[w]].do # "finish" BY <1>1
  <2> QED BY <1>1, <1>2, <1>3, <1>4, <1>5, <2>1, Elsewhere
<1>7. scope[w] \subseteq gone BY <1>3 DEF PruneInv, ListsAreWhole
<1>8. cancelled' \subseteq gone' BY <1>4, <1>7 DEF PruneInv
<1>9. ListsAreWhole' BY <1>6 DEF ListsAreWhole
<1>10. PrunedTold'
  <2>1. \A x \in Worker : at[x] = AtVisits + 2 => x = w BY <1>2, <1>5
  <2> QED BY <1>4, <2>1 DEF PruneInv, PrunedTold, OfKind
<1>11. Faithful' BY <1>4 DEF PruneInv, Faithful
<1> QED BY <1>8, <1>9, <1>10, <1>11 DEF PruneInv

\* A run stores raw rows: a pruned visit is not among them.
LEMMA PutPrune ==
  ASSUME EntityTypes, PruneInv, NEW w \in Worker, UpsertBatch(w)
  PROVE  PruneInv'
<1>1. /\ at[w] # 0 /\ Program[at[w]].do = "put" /\ Following(w)
      /\ naming' = [e \in Entity |-> IF e \in Upserted(w)
                                      THEN OfKind(view[w][e], Program[at[w]].to) ELSE naming[e]]
      /\ stored' = stored \cup Upserted(w)
      /\ UNCHANGED <<book, gone, shown, cancelled, cut, view>>
  BY DEF UpsertBatch, At, crmState, platState
<1> HIDE DEF UpsertBatch
<1>2. ASSUME NEW v \in AllVisits PROVE naming'[v] \subseteq Book[v]
  <2>1. v \in Entity BY DEF AllVisits, OfKind
  <2>2. naming[v] \subseteq Book[v] /\ view[w][v] \subseteq Book[v] BY DEF PruneInv, Faithful
  <2>3. OfKind(view[w][v], Program[at[w]].to) \subseteq view[w][v] BY DEF OfKind
  <2> QED BY <1>1, <2>1, <2>2, <2>3
<1>3. Faithful' BY <1>1, <1>2 DEF PruneInv, Faithful
<1>4. stored \subseteq stored' BY <1>1
<1>5. Program[at[w]].do \notin {"visits", "prune", "cancel"} /\ Program[at[w]].do # "finish"
  BY <1>1
<1> QED BY <1>1, <1>3, <1>4, <1>5, QuietPrune

\* A normalizing run reads.
LEMMA ReadPrune ==
  ASSUME EntityTypes, PruneInv, NEW w \in Worker,
         BeginNormalize(w) \/ ReadJobs(w) \/ ReadVisits(w)
  PROVE  PruneInv'
<1>1. /\ at[w] # 0 /\ Program[at[w]].do \in {"begin", "read", "reread"} /\ Following(w)
      /\ UNCHANGED <<book, gone, naming, stored, shown, cancelled, cut>>
  BY DEF BeginNormalize, ReadJobs, ReadVisits, Load, At, crmState, rawState, platState
<1>2. PICK V \in [Entity -> SUBSET Entity] :
        /\ view' = [view EXCEPT ![w] = V] /\ \A v \in AllVisits : V[v] \subseteq Book[v]
  <2>1. \A v \in AllVisits : v \in Entity BY DEF AllVisits, OfKind
  <2>2. CASE BeginNormalize(w)
    <3> DEFINE V == [e \in Entity |-> {}]
    <3>1. view' = [view EXCEPT ![w] = V] BY <2>2 DEF BeginNormalize
    <3>2. V \in [Entity -> SUBSET Entity] /\ \A v \in AllVisits : V[v] \subseteq Book[v] BY <2>1
    <3> QED BY <3>1, <3>2
  <2>3. CASE ReadJobs(w) \/ ReadVisits(w)
    <3>1. PICK X : view' = [view EXCEPT ![w] = [e \in Entity |-> IF e \in X THEN naming[e] ELSE @[e]]]
      BY <2>3 DEF ReadJobs, ReadVisits, Load
    <3> DEFINE V == [e \in Entity |-> IF e \in X THEN naming[e] ELSE view[w][e]]
    <3>2. view' = [view EXCEPT ![w] = V] BY <3>1
    <3>3. V \in [Entity -> SUBSET Entity] BY DEF EntityTypes, RawTypes, RunTypes
    <3>4. \A v \in AllVisits : V[v] \subseteq Book[v] BY <2>1 DEF PruneInv, Faithful
    <3> HIDE DEF V
    <3> QED BY <3>2, <3>3, <3>4
  <2> QED BY <2>2, <2>3
<1>3. Faithful' BY <1>1, <1>2, SeenFaithful DEF PruneInv
<1>4. stored \subseteq stored' BY <1>1
<1>5. Program[at[w]].do \notin {"visits", "prune", "cancel"} /\ Program[at[w]].do # "finish"
  BY <1>1
<1> QED BY <1>1, <1>3, <1>4, <1>5, QuietPrune

\* A pass writes: only of raw rows.
LEMMA WritePrune ==
  ASSUME EntityTypes, PruneInv, NEW w \in Worker, WriteRows(w) \/ WriteLinks(w)
  PROVE  PruneInv'
<1>1. /\ at[w] # 0 /\ Program[at[w]].do \in {"rows", "links"} /\ Following(w)
      /\ UNCHANGED <<crmState, rawState, owed, cut, task, hand, view, whole, scope, late, newly, edits,
                     entityFaults>>
  BY DEF WriteRows, WriteLinks, At
<1>2. hand[w] \subseteq stored BY <1>1, PassAt
<1>3. PICK rows \in SUBSET stored : shown' \subseteq shown \cup rows /\ cancelled' = cancelled \ rows
  <2>1. CASE WriteLinks(w)
    <3>1. shown' \subseteq shown \cup {} /\ cancelled' = cancelled \ {} BY <2>1 DEF WriteLinks
    <3> QED BY <3>1
  <2>2. CASE WriteRows(w)
    <3> DEFINE i == Program[at[w]]
               rows == {e \in RowsOf(w, i) : /\ Canon(w, e) = e
                                             /\ i.kind = "comment" => Resolved(w, i, e) # {}}
    <3>1. shown' \subseteq shown \cup rows /\ cancelled' = cancelled \ rows BY <2>2 DEF WriteRows
    <3>2. rows \subseteq stored BY <1>2, PassRows DEF OfKind
    <3> HIDE DEF rows
    <3> QED BY <3>1, <3>2
  <2> QED BY <2>1, <2>2
<1>4. UNCHANGED <<book, gone, stored, naming, cut, view>> BY <1>1 DEF crmState, rawState
<1>5. Faithful' BY <1>4 DEF PruneInv, Faithful
<1>6. \A v \in OfKind(shown', {"visit"}) \ stored' :
        v \in OfKind(shown, {"visit"}) \ stored /\ (v \in cancelled => v \in cancelled')
  BY <1>3, <1>4 DEF OfKind
<1>7. cancelled' \subseteq cancelled BY <1>3
<1>8. Program[at[w]].do \notin {"visits", "prune", "cancel"} /\ Program[at[w]].do # "finish"
  BY <1>1
<1>9. /\ \A x \in Worker : at[x] # AtVisits + 2
      /\ \A x \in Worker : at'[x] # AtVisits + 1 /\ at'[x] # AtVisits + 2
  BY <1>1, <1>8, OffThePrune, Elsewhere DEF EntityTypes
<1> QED BY <1>4, <1>5, <1>6, <1>7, <1>9, PruneFrame

\* A run ends or dies.
LEMMA EndPrune ==
  ASSUME EntityTypes, PruneInv, NEW w \in Worker, FinishNormalize(w) \/ RunDies(w)
  PROVE  PruneInv'
<1>1. /\ at[w] # 0 /\ Rest(w) /\ UNCHANGED <<book, gone, naming, stored, shown, cancelled>>
      /\ cut' = IF RunDies(w) /\ At(w, "cancel") THEN cut \cup scope[w] ELSE cut
  <2>1. CASE FinishNormalize(w)
    <3>1. ~At(w, "cancel") BY <2>1 DEF FinishNormalize, At
    <3> QED BY <2>1, <3>1 DEF FinishNormalize, At, crmState, platState
  <2>2. CASE RunDies(w) BY <2>2 DEF RunDies, crmState, rawState, platState
  <2> QED BY <2>1, <2>2
<1>2. /\ at[w] \in 1 .. AtFinish /\ RunTypes /\ \A x \in Worker : at[x] # 0 => x = w
  BY <1>1, RunAt DEF EntityTypes
<1>3. AtVisits \in Nat BY ProgramShape
<1>4. At(w, "cancel") <=> at[w] = AtVisits + 2 BY <1>1, <1>2, Places DEF At
<1>5. \A x \in Worker : at'[x] = 0 BY <1>1, <1>2 DEF Rest, RunTypes
<1>6. AtVisits + 1 # 0 /\ AtVisits + 2 # 0 BY <1>3
<1>7. ListsAreWhole' BY <1>5, <1>6 DEF ListsAreWhole
<1>8. Faithful'
  <2>1. view' = [view EXCEPT ![w] = [e \in Entity |-> {}]] BY <1>1 DEF Rest
  <2>2. [e \in Entity |-> {}] \in [Entity -> SUBSET Entity] OBVIOUS
  <2>3. \A v \in AllVisits : [e \in Entity |-> {}][v] \subseteq Book[v] BY DEF AllVisits, OfKind
  <2> QED BY <1>1, <2>1, <2>2, <2>3, SeenFaithful DEF PruneInv
<1>9. PrunedTold'
  <2>1. ASSUME NEW x \in Worker, at[x] = AtVisits + 2 PROVE scope[x] \subseteq cut'
    <3>1. x = w BY <1>2, <1>6, <2>1
    <3>2. At(w, "cancel") BY <1>4, <2>1, <3>1
    <3>3. RunDies(w) BY <3>2 DEF FinishNormalize, At
    <3> QED BY <1>1, <3>1, <3>2, <3>3
  <2>2. cut \subseteq cut' BY <1>1
  <2> QED BY <1>1, <2>1, <2>2 DEF PruneInv, PrunedTold
<1>10. cancelled' \subseteq gone' BY <1>1 DEF PruneInv
<1> QED BY <1>7, <1>8, <1>9, <1>10 DEF PruneInv

\* The invariant of pruning holds after every step.
LEMMA PruneStep ==
  ASSUME ~RunsOverlap, "job" \notin Loose, EntityTypes, PruneInv, [EntityNext]_entityVars
  PROVE  PruneInv'
<1>1. CASE UNCHANGED entityVars
  <2>1. UNCHANGED <<book, gone, naming, stored, shown, cancelled, cut, at, hand, view, whole, scope>>
    BY <1>1 DEF entityVars, crmState, rawState, platState, runState
  <2>2. Faithful' BY <2>1 DEF PruneInv, Faithful
  <2>3. ListsAreWhole' /\ PrunedTold' /\ cancelled' \subseteq gone'
    BY <2>1 DEF PruneInv, ListsAreWhole, PrunedTold
  <2> QED BY <2>2, <2>3 DEF PruneInv
<1>2. ASSUME NEW e \in Entity, NEW t \in Book[e], Assign(e, t) PROVE PruneInv'
  BY <1>2, AssignPrune
<1>3. ASSUME NEW v \in OfKind(Entity, {"visit"}), DeleteVisit(v) PROVE PruneInv'
  BY <1>3, DeletePrune DEF AllVisits
<1>4. ASSUME NEW w \in Worker, NEW J \in SUBSET OfKind(Entity, {"job"}) \ {{}}, Begin(w, J)
      PROVE  PruneInv'
  BY <1>4, BeginPrune
<1>5. ASSUME NEW w \in Worker, FanOutStep(w) PROVE PruneInv'
  BY <1>5, FetchPrune, VisitListPrune, PruneKeeps, CancelKeeps, PutPrune DEF FanOutStep
<1>6. ASSUME NEW w \in Worker, NormalizeStep(w) PROVE PruneInv'
  BY <1>6, ReadPrune, WritePrune, EndPrune DEF NormalizeStep
<1>7. ASSUME NEW w \in Worker, RunDies(w) PROVE PruneInv' BY <1>7, EndPrune
<1> QED BY <1>1, <1>2, <1>3, <1>4, <1>5, <1>6, <1>7 DEF EntityNext

\* As long as runs do not overlap and a visit stays with its job, whatever
\* requests fail, lists break off and runs die, at rest the platform cancels no
\* visit that ServiceTrade still has, and every visit whose raw row was pruned
\* is cancelled, except where a run died between the two statements.
THEOREM VisitsStayPruned ==
  ASSUME ~RunsOverlap, "job" \notin Loose
  PROVE  EntitySpec => []VisitsPruned
<1>1. EntityInit => EntityTypes /\ PruneInv
  <2> SUFFICES ASSUME EntityInit PROVE EntityTypes /\ PruneInv OBVIOUS
  <2>1. EntityTypes BY EntityTypesInit
  <2>2. Faithful BY EntityAssumption DEF EntityInit, Faithful, AllVisits, OfKind
  <2>3. AtVisits \in Nat BY ProgramShape
  <2>4. 0 # AtVisits + 1 /\ 0 # AtVisits + 2 BY <2>3
  <2>5. ListsAreWhole BY <2>4 DEF EntityInit, ListsAreWhole
  <2>6. PrunedTold /\ cancelled \subseteq gone BY DEF EntityInit, PrunedTold, OfKind
  <2> QED BY <2>1, <2>2, <2>5, <2>6 DEF PruneInv
<1>2. EntityTypes /\ PruneInv /\ [EntityNext]_entityVars => (EntityTypes /\ PruneInv)'
  BY EntityTypesStep, PruneStep
<1>3. PruneInv => VisitsPruned
  <2> SUFFICES ASSUME PruneInv, AtWork = {}, NEW v \in OfKind(shown, {"visit"})
               PROVE  /\ v \in cancelled => v \in gone
                      /\ v \notin stored => v \in cancelled \/ v \in cut
    BY DEF VisitsPruned
  <2>1. AtVisits \in Nat BY ProgramShape
  <2>2. 0 # AtVisits + 2 BY <2>1
  <2>3. \A x \in Worker : at[x] # AtVisits + 2 BY <2>2 DEF AtWork
  <2> QED BY <2>3 DEF PruneInv, PrunedTold
<1> QED BY <1>1, <1>2, <1>3, PTL DEF EntitySpec

\* No step of anything takes the phone number from a customer who had one.
THEOREM PhoneStays == EntitySpec => PhoneKept
<1>1. [EntityNext]_entityVars => [phone \subseteq phone']_entityVars
  <2> SUFFICES ASSUME EntityNext PROVE phone \subseteq phone' OBVIOUS
  <2>1. ASSUME NEW e \in Entity, NEW t \in Book[e], Assign(e, t) PROVE phone \subseteq phone'
    BY <2>1 DEF Assign, platState
  <2>2. ASSUME NEW v, DeleteVisit(v) PROVE phone \subseteq phone'
    BY <2>2 DEF DeleteVisit, platState
  <2>3. ASSUME NEW w \in Worker, NEW J, Begin(w, J) PROVE phone \subseteq phone'
    BY <2>3 DEF Begin, platState
  <2>4. ASSUME NEW w \in Worker, FanOutStep(w) PROVE phone \subseteq phone'
    BY <2>4 DEF FanOutStep, Detail, Comments, VisitList, Receive, People, Prune, CancelMissing,
                UpsertBatch, platState
  <2>5. ASSUME NEW w \in Worker, NormalizeStep(w) PROVE phone \subseteq phone'
    <3>1. ASSUME WriteRows(w) PROVE phone \subseteq phone'
      BY <3>1 DEF WriteRows, PhoneKnown
    <3>2. ASSUME ~WriteRows(w) PROVE phone' = phone
      BY <2>5, <3>2 DEF NormalizeStep, BeginNormalize, ReadJobs, ReadVisits, Load, WriteLinks,
                        FinishNormalize, platState
    <3> QED BY <3>1, <3>2
  <2>6. ASSUME NEW w \in Worker, RunDies(w) PROVE phone \subseteq phone'
    BY <2>6 DEF RunDies, platState
  <2> QED BY <2>1, <2>2, <2>3, <2>4, <2>5, <2>6 DEF EntityNext
<1> QED BY <1>1, PTL DEF EntitySpec, PhoneKept

-----------------------------------------------------------------------------
(* The references of records, and the statements that write them.          *)

\* The kinds of record a run fetches; a contract is named, but never fetched.
Fetchable == {"job", "customer", "location", "contact", "user", "project", "office", "tag",
              "visit", "technician", "line", "request", "comment"}

\* The references that filtered passes resolve.
RefKinds(kind) ==
  CASE kind = "location" -> LocationRefs
    [] kind = "job"      -> JobRefs
    [] kind = "visit"    -> {"job", "technician", "office"}
    [] kind = "comment"  -> CommentRefs
    [] kind = "request"  -> RequestRefs
    [] OTHER             -> {}

\* The last upsert of a kind, the pass that writes its rows first, and the last
\* pass that resolves its references to another kind.
LastPut(kind) ==
  CASE kind = "job" -> 2 [] kind = "customer" -> 4 [] kind = "location" -> 5
    [] kind = "contact" -> 6 [] kind = "user" -> 7 [] kind = "project" -> 8
    [] kind = "tag" -> 10 [] kind = "visit" -> 14 [] kind = "technician" -> 15
    [] kind = "office" -> 16 [] kind = "line" -> 17 [] kind = "request" -> 18
    [] OTHER -> 20
RowsAt(kind) ==
  CASE kind = "customer" -> 22 [] kind = "contact" -> 24 [] kind = "office" -> 25
    [] kind = "tag" -> 26 [] kind = "location" -> 27 [] kind = "technician" -> 32
    [] kind = "user" -> 33 [] kind = "project" -> 34 [] kind = "job" -> 35
    [] kind = "visit" -> 37 [] kind = "comment" -> 42 [] kind = "line" -> 43
    [] OTHER -> 46
LastPass(kind, to) ==
  CASE kind = "location" -> 27 [] kind = "job" -> 45
    [] kind = "visit" -> (CASE to = "job" -> 37 [] to = "technician" -> 38 [] OTHER -> 39)
    [] kind = "comment" -> 42 [] OTHER -> 46

\* The last upsert of each kind of record.
LEMMA PutTable ==
  /\ LastPut("job") = 2 /\ LastPut("customer") = 4 /\ LastPut("location") = 5 /\ LastPut("contact") = 6
  /\ LastPut("user") = 7 /\ LastPut("project") = 8 /\ LastPut("tag") = 10 /\ LastPut("visit") = 14
  /\ LastPut("technician") = 15 /\ LastPut("office") = 16 /\ LastPut("line") = 17 /\ LastPut("request") = 18
  /\ LastPut("comment") = 20
BY DEF LastPut

\* The pass that writes the platform rows of each kind of record.
LEMMA RowTable ==
  /\ RowsAt("customer") = 22 /\ RowsAt("contact") = 24 /\ RowsAt("office") = 25 /\ RowsAt("tag") = 26
  /\ RowsAt("location") = 27 /\ RowsAt("technician") = 32 /\ RowsAt("user") = 33 /\ RowsAt("project") = 34
  /\ RowsAt("job") = 35 /\ RowsAt("visit") = 37 /\ RowsAt("comment") = 42 /\ RowsAt("line") = 43
  /\ RowsAt("request") = 46
BY DEF RowsAt

\* The last pass that writes the references of each kind of record.
LEMMA LastTable ==
  /\ \A to : LastPass("location", to) = 27 /\ LastPass("job", to) = 45
  /\ \A to : LastPass("comment", to) = 42 /\ LastPass("request", to) = 46
  /\ LastPass("visit", "job") = 37 /\ LastPass("visit", "technician") = 38
  /\ LastPass("visit", "office") = 39
BY DEF LastPass

\* What the platform row of each kind of record refers to.
LEMMA RefTable ==
  /\ RefKinds("location") = {"customer", "contact"}
  /\ RefKinds("job") = {"customer", "user", "project", "contract", "visit", "location", "contact"}
  /\ RefKinds("visit") = {"job", "technician", "office"} /\ RefKinds("comment") = {"job"}
  /\ RefKinds("request") = {"job", "location", "line", "contract"}
  /\ \A kind \in Fetchable \ {"location", "job", "visit", "comment", "request"} : RefKinds(kind) = {}
BY DEF RefKinds, LocationRefs, JobRefs, CommentRefs, RequestRefs, Fetchable

\* Every kind of record has its last upsert.
LEMMA Puts ==
  ASSUME NEW kind \in Fetchable
  PROVE  /\ LastPut(kind) \in 2 .. 20 /\ Program[LastPut(kind)].kind = kind
         /\ Program[LastPut(kind)].do = "put"
<1>1. \A n \in 1 .. 20 : n \in 1 .. 49 OBVIOUS
<1>2. /\ Program[2].kind = "job" /\ Program[4].kind = "customer" /\ Program[5].kind = "location"
      /\ Program[6].kind = "contact" /\ Program[7].kind = "user" /\ Program[8].kind = "project"
      /\ Program[10].kind = "tag" /\ Program[14].kind = "visit"
      /\ Program[15].kind = "technician" /\ Program[16].kind = "office"
      /\ Program[17].kind = "line" /\ Program[18].kind = "request"
      /\ Program[20].kind = "comment"
  BY <1>1, ProgramListed, Listed DEF Put
<1>3. \A n \in {2, 4, 5, 6, 7, 8, 10, 14, 15, 16, 17, 18, 20} :
        n \in 2 .. 20 /\ Program[n].do = "put"
  BY <1>1, ProgramListed, Listed DEF Put
<1>4. LastPut(kind) \in {2, 4, 5, 6, 7, 8, 10, 14, 15, 16, 17, 18, 20}
  BY PutTable DEF Fetchable
<1> QED BY <1>2, <1>3, <1>4, PutTable DEF Fetchable

\* An upsert stores a kind of record that is fetched; offices alone are stored
\* twice.
LEMMA PutsAt ==
  ASSUME NEW n \in 1 .. 20, Program[n].do = "put"
  PROVE  /\ Program[n].kind \in Fetchable
         /\ n <= LastPut(Program[n].kind)
         /\ Program[n].kind # "office" => n = LastPut(Program[n].kind)
         /\ Program[n].kind \in {"visit", "comment"} => "job" \in Program[n].to
<1>1. n \in 1 .. 49 OBVIOUS
<1>2. Program[n] = Listing[n] BY <1>1, ProgramListed
<1>3. /\ Listing[n].kind \in Fetchable /\ n <= LastPut(Listing[n].kind)
      /\ Listing[n].kind # "office" => n = LastPut(Listing[n].kind)
      /\ Listing[n].kind \in {"visit", "comment"} => "job" \in Listing[n].to
  BY <1>2, Listed, PutTable DEF Fetchable, Do, Put, VisitRow, CommentRow
<1> QED BY <1>2, <1>3

\* Every kind of record has the pass that writes its rows.
LEMMA RowPasses ==
  ASSUME NEW kind \in Fetchable
  PROVE  /\ RowsAt(kind) \in 22 .. 46 /\ Program[RowsAt(kind)].kind = kind
         /\ Program[RowsAt(kind)].do = "rows"
<1>1. \A n \in 22 .. 46 : n \in 1 .. 49 OBVIOUS
<1>2. \A n \in {22, 24, 25, 26, 27, 32, 33, 34, 35, 37, 42, 43, 46} :
        n \in 22 .. 46 /\ Program[n] = Listing[n]
  BY <1>1, ProgramListed
<1>3. /\ Program[22].kind = "customer" /\ Program[24].kind = "contact" /\ Program[25].kind = "office"
      /\ Program[26].kind = "tag" /\ Program[27].kind = "location"
      /\ Program[32].kind = "technician" /\ Program[33].kind = "user"
      /\ Program[34].kind = "project" /\ Program[35].kind = "job" /\ Program[37].kind = "visit"
      /\ Program[42].kind = "comment" /\ Program[43].kind = "line"
      /\ Program[46].kind = "request"
  BY <1>2, PassesListed DEF RowPass
<1>4. \A n \in {22, 24, 25, 26, 27, 32, 33, 34, 35, 37, 42, 43, 46} : Program[n].do = "rows"
  BY <1>2, PassesListed DEF RowPass
<1>5. RowsAt(kind) \in {22, 24, 25, 26, 27, 32, 33, 34, 35, 37, 42, 43, 46}
  BY RowTable DEF Fetchable
<1>6. Program[RowsAt(kind)].kind = kind BY <1>3, RowTable DEF Fetchable
<1> QED BY <1>2, <1>4, <1>5, <1>6

\* Every reference of a kind of record has its last pass, which comes after the
\* pass that writes the rows it refers to, and repairs rows that lack it.
LEMMA LastPasses ==
  ASSUME NEW kind \in Fetchable, NEW to \in RefKinds(kind)
  PROVE  LET n == LastPass(kind, to)
         IN /\ n \in 22 .. 46 /\ Program[n].kind = kind /\ Program[n].do \in {"rows", "links"}
            /\ Program[n].filtered /\ to \in Program[n].to
            /\ to # "contract" => to \in Fetchable /\ RowsAt(to) < n
<1> DEFINE n == LastPass(kind, to)
<1>1. n \in 22 .. 46 BY DEF LastPass
<1>2. Program[n] = Listing[n]
  <2>1. n \in 1 .. 49 BY <1>1
  <2> QED BY <2>1, ProgramListed
<1>3. kind \in {"location", "job", "visit", "comment", "request"} BY DEF RefKinds
<1>4. CASE kind = "location"
  BY <1>2, <1>4, PassesListed DEF LastPass, RefKinds, LocationRefs, RowPass, RowsAt, Fetchable
<1>5. CASE kind = "job"
  BY <1>2, <1>5, PassesListed DEF LastPass, RefKinds, JobRefs, RowPass, RowsAt, Fetchable
<1>6. CASE kind = "visit"
  BY <1>2, <1>6, PassesListed DEF LastPass, RefKinds, VisitRefs, RowPass, LinkPass, RowsAt, Fetchable
<1>7. CASE kind = "comment"
  BY <1>2, <1>7, PassesListed DEF LastPass, RefKinds, CommentRefs, RowPass, RowsAt, Fetchable
<1>8. CASE kind = "request"
  BY <1>2, <1>8, PassesListed DEF LastPass, RefKinds, RequestRefs, RowPass, RowsAt, Fetchable
<1> QED BY <1>3, <1>4, <1>5, <1>6, <1>7, <1>8

\* What the passes do, one by one.
LEMMA PassesAt ==
  ASSUME NEW n \in 22 .. 48
  PROVE  LET i == Program[n]
         IN /\ i.do \in {"rows", "links", "read", "reread"}
            /\ i.do = "read" <=> n = 23
            /\ i.do = "reread" <=> n = 36
            /\ i.do = "rows" /\ i.kind # "contract" => /\ i.kind \in Fetchable
                                                       /\ n >= RowsAt(i.kind)
                                                       /\ i.kind # "job" => n = RowsAt(i.kind)
            /\ i.filtered => i.to \subseteq RefKinds(i.kind) /\ i.kind \notin i.to
            /\ ~i.filtered /\ i.do \in {"rows", "links"} => i.to \cap RefKinds(i.kind) = {}
            /\ i.filtered /\ i.do = "links" => i.kind = "visit" /\ n > 37
            /\ i.kind = "visit" => n > 36
            /\ i.kind \in {"job", "contact"} => n > 23
            /\ i.filtered => \A k \in i.to : n <= LastPass(i.kind, k)
<1>1. Program[n] = Listing[n]
  <2>1. n \in 1 .. 49 OBVIOUS
  <2> QED BY <2>1, ProgramListed
<1> USE <1>1, PassesListed
    DEF RowPass, LinkPass, Do, RowsAt, Fetchable, RefKinds, LastPass, CustomerRefs, ContactRefs, OfficeRefs,
        TagRefs, LocationRefs, TechnicianRefs, UserRefs, ProjectRefs, JobRefs, VisitRefs, CommentRefs,
        LineRefs, ContractRefs, RequestRefs, ServiceRefs
<1>22. CASE n = 22 BY <1>22
<1>23. CASE n = 23 BY <1>23
<1>24. CASE n = 24 BY <1>24
<1>25. CASE n = 25 BY <1>25
<1>26. CASE n = 26 BY <1>26
<1>27. CASE n = 27 BY <1>27
<1>28. CASE n = 28 BY <1>28
<1>29. CASE n = 29 BY <1>29
<1>30. CASE n = 30 BY <1>30
<1>31. CASE n = 31 BY <1>31
<1>32. CASE n = 32 BY <1>32
<1>33. CASE n = 33 BY <1>33
<1>34. CASE n = 34 BY <1>34
<1>35. CASE n = 35 BY <1>35
<1>36. CASE n = 36 BY <1>36
<1>37. CASE n = 37 BY <1>37
<1>38. CASE n = 38 BY <1>38
<1>39. CASE n = 39 BY <1>39
<1>40. CASE n = 40 BY <1>40
<1>41. CASE n = 41 BY <1>41
<1>42. CASE n = 42 BY <1>42
<1>43. CASE n = 43 BY <1>43
<1>44. CASE n = 44 BY <1>44
<1>45. CASE n = 45 BY <1>45
<1>46. CASE n = 46 BY <1>46
<1>47. CASE n = 47 BY <1>47
<1>48. CASE n = 48 BY <1>48
<1>49. \/ n = 22 \/ n = 23 \/ n = 24 \/ n = 25 \/ n = 26 \/ n = 27 \/ n = 28
       \/ n = 29 \/ n = 30 \/ n = 31 \/ n = 32 \/ n = 33 \/ n = 34 \/ n = 35
       \/ n = 36 \/ n = 37 \/ n = 38 \/ n = 39 \/ n = 40 \/ n = 41 \/ n = 42
       \/ n = 43 \/ n = 44 \/ n = 45 \/ n = 46 \/ n = 47 \/ n = 48
  BY ONLY n \in 22 .. 48
<1> QED BY ONLY <1>49, <1>22, <1>23, <1>24, <1>25, <1>26, <1>27, <1>28, <1>29, <1>30, <1>31,
           <1>32, <1>33, <1>34, <1>35, <1>36, <1>37, <1>38, <1>39, <1>40, <1>41, <1>42, <1>43,
           <1>44, <1>45, <1>46, <1>47, <1>48

-----------------------------------------------------------------------------
(* The records that find each other: what holds on the way.                *)

\* The jobs a record is the business of.
Owner(e) ==
  CASE e[1] = "job" -> {e}
    [] e[1] = "location" -> {j \in AllJobs : e \in Book[j]}
    [] e[1] = "visit" -> JobsOf(e)
    [] OTHER -> {}
InDebt(e) == Owner(e) \cap owed # {}

\* The records a run fetches with a record, because it refers to them.
Refs(e, X) == OfKind(X, RefKinds(e[1]) \ {"visit", "contract"})

\* ServiceTrade and the raw rows say no more than there is to say, and what
\* dispatchers do not reassign stays.
Honest ==
  /\ \A e \in Entity : /\ book[e] \subseteq Book[e]
                       /\ OfKind(Book[e], {"job", "customer", "location"}) \subseteq book[e]
  /\ \A e \in Entity : e[1] # "contact" => naming[e] \subseteq Book[e]
  /\ \A e \in stored : /\ e[1] \in Fetchable
                       /\ e[1] \in {"visit", "comment"} => JobsOf(e) \subseteq naming[e]
                       /\ e[1] = "comment" => JobsOf(e) \subseteq stored

\* What a run that fetches has in hand: a record with the records it refers to,
\* and the raw row of it as soon as the last upsert of its kind is done.
Kept(w, e) ==
  /\ e[1] \in Fetchable
  /\ Refs(e, view[w][e]) \subseteq hand[w]
  /\ e[1] # "contact" => view[w][e] \subseteq Book[e]
  /\ e[1] \in {"visit", "comment"} => JobsOf(e) \subseteq view[w][e] \cap task[w]
  /\ e[1] \in {"job", "location", "visit"} => Owner(e) \cap task[w] # {}
  /\ at[w] <= LastPut(e[1]) \/ (e \in fresh /\ Refs(e, naming[e]) \subseteq hand[w])
Tasked(w) ==
  /\ task[w] \subseteq hand[w] /\ OfKind(hand[w], {"job"}) \subseteq task[w]
  /\ \A j \in task[w] : OfKind(Book[j], {"location"}) \subseteq hand[w]
  /\ at[w] >= 12 => whole[w] \subseteq task[w]
  /\ at[w] >= 13 =>
       \A v \in OfKind(stored, {"visit"}) : JobsOf(v) \cap whole[w] # {} => v \in hand[w]
Held == \A w \in Worker : /\ at[w] \in 2 .. 21 => Tasked(w) /\ \A e \in hand[w] : Kept(w, e)
                          /\ at[w] < 2 => hand[w] = {}

\* A raw row refers to raw rows, is the business of a job that is owed, or of
\* the run that just stored it and has the others in hand.
Bringing(w, e, t) ==
  at[w] \in 2 .. 21 /\ e \in hand[w] /\ e \in fresh /\ t \in hand[w] /\ Owner(e) \cap task[w] # {}
Closed ==
  \A e \in stored : \A t \in Refs(e, naming[e]) :
    t \in stored \/ InDebt(e) \/ \E w \in Worker : Bringing(w, e, t)

\* A normalizing run takes all raw rows above the watermark.
ReadIn(w) ==
  /\ fresh \subseteq scope[w] /\ hand[w] \subseteq stored
  /\ \A e \in hand[w] : view[w][e] = naming[e]
  /\ at[w] > 23 => OfKind(fresh, {"job", "contact"}) \subseteq newly[w] \cap hand[w]
  /\ at[w] > 36 => OfKind(fresh, {"visit"}) \subseteq newly[w] \cap hand[w]
Reading == newly \in [Worker -> SUBSET Entity] /\ \A w \in Worker : at[w] > 21 => ReadIn(w)

\* A raw row has its platform row and its foreign keys, or the pass that writes
\* them is still to come.
Ahead(n) == \A w \in Worker : at[w] <= n
Right(e, kind) ==
  \A t \in OfKind(Entity, {kind}) : <<e, t>> \in edge <=> t \in naming[e] \cap shown
HasRow(e) == e \in shown \/ (e \in fresh /\ Ahead(RowsAt(e[1])))
HasRefs(e, kind) == Right(e, kind) \/ InDebt(e) \/ (e \in fresh /\ Ahead(LastPass(e[1], kind)))
Shows(e) == InDebt(e) \/ OfKind(naming[e] \cap stored, RefKinds(e[1])) \subseteq shown
Linked ==
  /\ \A e \in stored : HasRow(e) /\ \A kind \in RefKinds(e[1]) : HasRefs(e, kind)
  /\ \A e \in stored \ fresh : Shows(e)

RefsInv == Honest /\ Held /\ Closed /\ Reading /\ Linked

\* Where listing visits, normalizing and the end are in the program.
LEMMA Numbers ==
  AtVisits = 11 /\ AtBegin = 21 /\ AtFinish = 49
BY ProgramListed

\* A step to the next statement does not pass one that has something to do.
LEMMA Advance ==
  ASSUME RunTypes, NEW w \in Worker, at[w] # 0, Program[at[w]].do # "finish", Following(w)
  PROVE  /\ at[w] \in 1 .. 48 /\ at'[w] \in 1 .. 49 /\ at'[w] > at[w]
         /\ \A x \in Worker : x # w => at[x] = 0 /\ at'[x] = 0
         /\ \A n \in 1 .. 49 : at[w] < n /\ HasRows(Program[n]) => at'[w] <= n
<1>1. at[w] \in 1 .. AtFinish /\ \A x \in Worker : at[x] # 0 => x = w BY RunAt
<1>2. /\ at' = [at EXCEPT ![w] = NextStatement[at[w]]] /\ at[w] # AtFinish
  BY Onward
<1>3. at[w] \in 1 .. 48 BY <1>1, <1>2, Numbers
<1>4. at'[w] = NextStatement[at[w]] /\ \A x \in Worker : x # w => at'[x] = at[x]
  BY <1>2 DEF RunTypes
<1>5. at[w] \in 1 .. AtFinish - 1 BY <1>3, Numbers
<1>6. /\ NextStatement[at[w]] \in at[w] + 1 .. AtFinish
      /\ \A m \in at[w] + 1 .. AtFinish : HasRows(Program[m]) => NextStatement[at[w]] <= m
  BY <1>5, NextPlace
<1>7. at'[w] \in at[w] + 1 .. 49 /\ \A m \in at[w] + 1 .. 49 : HasRows(Program[m]) => at'[w] <= m
  BY <1>4, <1>6, Numbers
<1>8. \A n \in 1 .. 49 : at[w] < n => n \in at[w] + 1 .. 49 BY <1>3
<1> QED BY <1>1, <1>3, <1>4, <1>7, <1>8

\* A statement about a kind of record that exists is not passed over.
LEMMA NotEmpty ==
  ASSUME NEW n \in 1 .. 49, NEW e \in Entity, Program[n].kind = e[1]
  PROVE  HasRows(Program[n])
BY DEF HasRows

\* Before the last upsert of a kind of record, that upsert is not passed.
LEMMA StillToPut ==
  ASSUME RunTypes, NEW w \in Worker, at[w] # 0, Program[at[w]].do # "finish", Following(w),
         NEW e \in Entity, e[1] \in Fetchable, at[w] < LastPut(e[1])
  PROVE  at'[w] <= LastPut(e[1])
<1>1. LastPut(e[1]) \in 2 .. 20 /\ Program[LastPut(e[1])].kind = e[1] BY Puts
<1>2. LastPut(e[1]) \in 1 .. 49 BY <1>1
<1>3. HasRows(Program[LastPut(e[1])]) BY <1>1, <1>2, NotEmpty
<1> QED BY <1>2, <1>3, Advance

\* The same for the passes.
LEMMA StillToCome ==
  ASSUME RunTypes, NEW w \in Worker, at[w] # 0, Program[at[w]].do # "finish", Following(w),
         NEW n \in 1 .. 49, NEW e \in Entity, Program[n].kind = e[1], at[w] < n
  PROVE  Ahead(n)'
<1>0. HasRows(Program[n]) BY NotEmpty
<1>1. at'[w] <= n BY <1>0, Advance
<1>2. ASSUME NEW x \in Worker PROVE at'[x] <= n
  <2>1. CASE x = w BY <1>1, <2>1
  <2>2. CASE x # w
    <3>1. at'[x] = 0 BY <2>2, Advance
    <3> QED BY <3>1
  <2> QED BY <2>1, <2>2
<1> QED BY <1>2 DEF Ahead

\* Where a run is, by what it does.
LEMMA Stations ==
  ASSUME RunTypes, NEW w \in Worker, at[w] # 0
  PROVE  /\ Program[at[w]].do = "details" => at[w] = 1
         /\ Program[at[w]].do = "people" => at[w] = 3
         /\ Program[at[w]].do = "visits" => at[w] = 11
         /\ Program[at[w]].do = "prune" => at[w] = 12
         /\ Program[at[w]].do = "cancel" => at[w] = 13
         /\ Program[at[w]].do = "comments" => at[w] = 19
         /\ Program[at[w]].do = "put" => at[w] \in 2 .. 20
         /\ Program[at[w]].do = "begin" => at[w] = 21
         /\ Program[at[w]].do = "read" => at[w] = 23
         /\ Program[at[w]].do = "reread" => at[w] = 36
         /\ Program[at[w]].do \in {"rows", "links"} => at[w] \in 22 .. 48
         /\ Program[at[w]].do = "finish" => at[w] = 49
<1>1. at[w] \in 1 .. 49 BY RunAt, Numbers
<1>2. \/ at[w] \in 1 .. 20 \/ at[w] = 21 \/ at[w] \in 22 .. 48 \/ at[w] = 49 BY <1>1
<1>3. Program[at[w]] = Listing[at[w]] BY <1>1, ProgramListed
<1>4. CASE at[w] \in 1 .. 20 BY <1>3, <1>4, Listed DEF Do, Put
<1>5. CASE at[w] = 21 BY <1>3, <1>5, PassesListed DEF Do
<1>6. CASE at[w] \in 22 .. 48
  <2>1. /\ Program[at[w]].do \in {"rows", "links", "read", "reread"}
        /\ Program[at[w]].do = "read" <=> at[w] = 23
        /\ Program[at[w]].do = "reread" <=> at[w] = 36
    BY <1>6, PassesAt
  <2> QED BY <1>6, <2>1
<1>7. CASE at[w] = 49 BY <1>3, <1>7, PassesListed DEF Do
<1> QED BY <1>2, <1>4, <1>5, <1>6, <1>7

\* Steps of the statements that the program always has.
LEMMA FixedSteps ==
  ASSUME RunTypes, NEW w \in Worker, at[w] # 0, Program[at[w]].do # "finish", Following(w)
  PROVE  /\ at[w] = 1 => at'[w] \in 2 .. 3
         /\ at[w] <= 2 => at'[w] <= 3
         /\ at[w] <= 10 => at'[w] <= 11
         /\ at[w] = 11 => at'[w] = 12
         /\ at[w] = 12 => at'[w] = 13
         /\ at[w] <= 18 => at'[w] <= 19
         /\ at[w] <= 20 => at'[w] \in 2 .. 21
         /\ at[w] <= 22 => at'[w] <= 23
         /\ at[w] <= 35 => at'[w] <= 36
<1>1. \A n \in {3, 11, 12, 13, 19, 21, 23, 36} :
        n \in 1 .. 49 /\ Program[n].kind = "none"
  <2>1. \A n \in {3, 11, 12, 13, 19, 21, 23, 36} : n \in 1 .. 49 /\ Program[n] = Listing[n]
    BY ProgramListed
  <2> QED BY <2>1, Listed, PassesListed DEF Do
<1>2. \A n \in {3, 11, 12, 13, 19, 21, 23, 36} : n \in 1 .. 49 /\ HasRows(Program[n])
  BY <1>1 DEF HasRows
<1>3. /\ at[w] \in 1 .. 48 /\ at'[w] \in 1 .. 49 /\ at'[w] > at[w]
      /\ \A n \in {3, 11, 12, 13, 19, 21, 23, 36} : at[w] < n => at'[w] <= n
  BY <1>2, Advance
<1> QED BY <1>3

\* Nobody is anybody else, so nobody is merged.
LEMMA NobodyMerges ==
  ASSUME OwnInboxes, stored \subseteq Entity
  PROVE  /\ \A X \in SUBSET Entity, e \in Entity : e[1] = "contact" =>
              Survivor(OfKind(X, {"contact"}) \cup {e}, e) = e
         /\ \A e \in Entity : Survives(e) = e
<1>1. ASSUME NEW X \in SUBSET Entity, NEW e \in Entity, e[1] = "contact"
      PROVE  Survivor(OfKind(X, {"contact"}) \cup {e}, e) = e
  <2> DEFINE Y == OfKind(X, {"contact"}) \cup {e}
             same == {d \in Y : d = e \/ (Inbox[d] = Inbox[e] /\ Inbox[e] # NoInbox)}
  <2>1. e \in OfKind(Entity, {"contact"}) /\ Y \subseteq OfKind(Entity, {"contact"})
    BY <1>1 DEF OfKind
  <2>2. e[2] \in Nat /\ \A d \in Y : Inbox[e] = Inbox[d] /\ Inbox[e] # NoInbox => e = d
    BY <2>1 DEF OwnInboxes
  <2> HIDE DEF Y
  <2>3. e \in Y BY DEF Y
  <2>4. same = {e} BY <2>2, <2>3
  <2>5. Survivor(Y, e) = CHOOSE d \in same : \A x \in same : d[2] <= x[2] BY DEF Survivor
  <2> HIDE DEF same
  <2>6. (CHOOSE d \in same : \A x \in same : d[2] <= x[2]) = e BY <2>2, <2>4
  <2> QED BY <2>5, <2>6 DEF Y
<1>2. ASSUME NEW e \in Entity PROVE Survives(e) = e
  <2>1. CASE e[1] = "contact"
    <3>1. Survives(e) = Survivor(OfKind(stored, {"contact"}) \cup {e}, e) BY <2>1 DEF Survives
    <3> QED BY <1>1, <2>1, <3>1
  <2>2. CASE e[1] # "contact" BY <2>2 DEF Survives
  <2> QED BY <2>1, <2>2
<1> QED BY <1>1, <1>2

-----------------------------------------------------------------------------
(* Runs that fetch.                                                        *)

\* Other runs are at rest.
LEMMA HeldBy ==
  ASSUME RunTypes, Held, NEW w \in Worker,
         \A x \in Worker : x # w => at[x] = 0 /\ at'[x] = 0 /\ hand'[x] = hand[x],
         at'[w] \in 2 .. 21 => Tasked(w)' /\ \A e \in hand'[w] : Kept(w, e)',
         at'[w] < 2 => hand'[w] = {}
  PROVE  Held'
<1> SUFFICES ASSUME NEW x \in Worker
             PROVE  /\ at'[x] \in 2 .. 21 => Tasked(x)' /\ \A e \in hand'[x] : Kept(x, e)'
                    /\ at'[x] < 2 => hand'[x] = {}
  BY DEF Held
<1>1. CASE x = w BY <1>1
<1>2. CASE x # w
  <2>1. at[x] = 0 /\ at'[x] = 0 /\ hand'[x] = hand[x] BY <1>2
  <2>2. hand[x] = {} BY <2>1 DEF Held
  <2> QED BY <2>1, <2>2
<1> QED BY <1>1, <1>2

\* As long as the run fetches, every pass is still to come, and the platform
\* stays as it is.
LEMMA SyncAhead ==
  ASSUME RunTypes, NEW w \in Worker, at[w] \in 1 .. 20, Program[at[w]].do # "finish", Following(w)
  PROVE  /\ at'[w] \in 2 .. 21 /\ \A x \in Worker : x # w => at[x] = 0 /\ at'[x] = 0
         /\ \A n \in 21 .. 49 : Ahead(n)'
<1>1. at[w] # 0 OBVIOUS
<1>2. at'[w] \in 2 .. 21 /\ \A x \in Worker : x # w => at[x] = 0 /\ at'[x] = 0
  BY <1>1, FixedSteps, Advance
<1>3. ASSUME NEW n \in 21 .. 49, NEW x \in Worker PROVE at'[x] <= n
  BY <1>2
<1> QED BY <1>2, <1>3 DEF Ahead

\* A run that only fetches leaves what normalizing runs have read.
LEMMA SyncReading ==
  ASSUME RunTypes, Reading, NEW w \in Worker, at'[w] \in 0 .. 21, newly' = newly,
         \A x \in Worker : x # w => at'[x] = 0
  PROVE  Reading'
<1>1. \A x \in Worker : ~(at'[x] > 21) OBVIOUS
<1> QED BY <1>1 DEF Reading

\* The passes of a kind of record are in the program.
LEMMA PassNumbers ==
  ASSUME NEW e, e[1] \in Fetchable
  PROVE  /\ RowsAt(e[1]) \in 21 .. 49
         /\ \A kind \in RefKinds(e[1]) : LastPass(e[1], kind) \in 21 .. 49
<1>1. RowsAt(e[1]) \in 22 .. 46 BY RowPasses
<1>2. \A kind \in RefKinds(e[1]) : LastPass(e[1], kind) \in 22 .. 46 BY LastPasses
<1> QED BY <1>1, <1>2

\* A run that fetches passes none of the passes.
LEMMA SyncLinked ==
  ASSUME EntityTypes, Honest, Linked, NEW w \in Worker, at[w] \in 1 .. 20,
         Program[at[w]].do # "finish", Following(w),
         UNCHANGED <<shown, edge, owed, naming>>, stored' \subseteq stored,
         fresh' = fresh \cap stored'
  PROVE  Linked'
<1>1. \A n \in 21 .. 49 : Ahead(n)' BY SyncAhead DEF EntityTypes
<1>2. ASSUME NEW e \in stored' PROVE HasRow(e)' /\ \A kind \in RefKinds(e[1]) : HasRefs(e, kind)'
  <2>1. e \in stored /\ e[1] \in Fetchable BY DEF Honest
  <2>2. RowsAt(e[1]) \in 21 .. 49 /\ \A kind \in RefKinds(e[1]) : LastPass(e[1], kind) \in 21 .. 49
    BY <2>1, PassNumbers
  <2>3. HasRow(e) /\ \A kind \in RefKinds(e[1]) : HasRefs(e, kind) BY <2>1 DEF Linked
  <2>4. HasRow(e)' BY <1>1, <1>2, <2>2, <2>3 DEF HasRow
  <2>5. ASSUME NEW kind \in RefKinds(e[1]) PROVE HasRefs(e, kind)'
    <3>1. HasRefs(e, kind) /\ Ahead(LastPass(e[1], kind))' BY <1>1, <2>2, <2>3
    <3>2. Right(e, kind) => Right(e, kind)' BY DEF Right
    <3>3. InDebt(e) => InDebt(e)' BY DEF InDebt
    <3> QED BY <1>2, <3>1, <3>2, <3>3 DEF HasRefs
  <2> QED BY <2>4, <2>5
<1>3. ASSUME NEW e \in stored' \ fresh' PROVE Shows(e)'
  <2>1. e \in stored \ fresh BY <1>3
  <2>2. Shows(e) BY <2>1 DEF Linked
  <2>3. OfKind(naming[e] \cap stored', RefKinds(e[1])) \subseteq OfKind(naming[e] \cap stored, RefKinds(e[1]))
    BY DEF OfKind
  <2> QED BY <2>2, <2>3 DEF Shows, InDebt
<1> QED BY <1>2, <1>3 DEF Linked

\* What is in hand while nothing is stored.
LEMMA StillKept ==
  ASSUME EntityTypes, Held, NEW w \in Worker, at[w] \in 2 .. 20, Program[at[w]].do \notin {"put", "finish"},
         Following(w), NEW e \in hand[w], task' = task, naming' = naming,
         e \in fresh => e \in fresh',
         hand[w] \subseteq hand'[w], view'[w][e] = view[w][e] \/ e[1] = "contact"
  PROVE  Kept(w, e)'
<1>1. Kept(w, e) /\ RunTypes /\ at[w] # 0 /\ e \in Entity BY DEF Held, EntityTypes, RunTypes
<1>2. /\ e[1] \in Fetchable /\ Refs(e, view[w][e]) \subseteq hand[w]
      /\ e[1] # "contact" => view[w][e] \subseteq Book[e]
      /\ e[1] \in {"visit", "comment"} => JobsOf(e) \subseteq view[w][e] \cap task[w]
      /\ e[1] \in {"job", "location", "visit"} => Owner(e) \cap task[w] # {}
      /\ at[w] <= LastPut(e[1]) \/ (e \in fresh /\ Refs(e, naming[e]) \subseteq hand[w])
  BY <1>1 DEF Kept
<1>3. Refs(e, view'[w][e]) \subseteq hand'[w]
  <2>1. CASE e[1] = "contact"
    <3>1. RefKinds(e[1]) = {} BY <2>1, RefTable DEF Fetchable
    <3> QED BY <3>1 DEF Refs, OfKind
  <2>2. CASE e[1] # "contact" BY <1>2, <2>2
  <2> QED BY <2>1, <2>2
<1>4. at'[w] <= LastPut(e[1]) \/ (e \in fresh' /\ Refs(e, naming'[e]) \subseteq hand'[w])
  <2>1. CASE at[w] <= LastPut(e[1])
    <3>1. LastPut(e[1]) \in 2 .. 20 /\ Program[LastPut(e[1])].do = "put" BY <1>2, Puts
    <3>2. at[w] # LastPut(e[1]) BY <3>1
    <3>3. at[w] < LastPut(e[1]) BY <2>1, <3>1, <3>2
    <3> QED BY <1>1, <1>2, <3>3, StillToPut
  <2>2. CASE e \in fresh /\ Refs(e, naming[e]) \subseteq hand[w] BY <2>2
  <2> QED BY <1>2, <2>1, <2>2
<1>5. Owner(e)' = Owner(e) BY DEF Owner
<1>6. /\ e[1] # "contact" => view'[w][e] \subseteq Book[e]
      /\ e[1] \in {"visit", "comment"} => JobsOf(e) \subseteq view'[w][e] \cap task'[w]
      /\ e[1] \in {"job", "location", "visit"} => Owner(e) \cap task'[w] # {}
  BY <1>2
<1> QED BY <1>2, <1>3, <1>4, <1>6 DEF Kept

\* A record is brought as long as its run fetches.
LEMMA StillClosed ==
  ASSUME EntityTypes, Closed, NEW w \in Worker, at[w] \in 1 .. 20, Program[at[w]].do # "finish",
         Following(w), UNCHANGED <<owed, naming, task>>, stored' \subseteq stored,
         OfKind(stored, Fetchable \ {"visit"}) \subseteq stored',
         hand[w] \subseteq hand'[w], fresh' = fresh \cap stored', \A e \in stored : e[1] \in Fetchable
  PROVE  Closed'
<1> SUFFICES ASSUME NEW e \in stored', NEW t \in Refs(e, naming[e])
             PROVE  t \in stored' \/ InDebt(e)' \/ \E x \in Worker : Bringing(x, e, t)'
  BY DEF Closed
<1>1. e \in stored /\ (t \in stored \/ InDebt(e) \/ \E x \in Worker : Bringing(x, e, t))
  BY DEF Closed
<1>2. at'[w] \in 2 .. 21 /\ \A x \in Worker : x # w => at[x] = 0
  BY SyncAhead DEF EntityTypes
<1>3. ASSUME t \in stored PROVE t \in stored'
  <2>1. t[1] # "visit" /\ t[1] \in Fetchable BY <1>3 DEF Refs, OfKind
  <2> QED BY <1>3, <2>1 DEF OfKind
<1>4. InDebt(e) => InDebt(e)' BY DEF InDebt
<1>5. ASSUME NEW x \in Worker, Bringing(x, e, t) PROVE Bringing(w, e, t)'
  <2>1. x = w BY <1>2, <1>5 DEF Bringing
  <2>2. e \in hand[w] /\ e \in fresh /\ t \in hand[w] /\ Owner(e) \cap task[w] # {}
    BY <1>5, <2>1 DEF Bringing
  <2>3. e \in hand'[w] /\ e \in fresh' /\ t \in hand'[w] /\ Owner(e) \cap task'[w] # {} BY <2>2
  <2> QED BY <1>2, <2>3 DEF Bringing
<1> QED BY <1>1, <1>3, <1>4, <1>5

\* A response is in.
LEMMA FetchKeeps ==
  ASSUME EntityTypes, RefsInv, NEW w \in Worker, at[w] \in 1 .. 20,
         Program[at[w]].do \notin {"put", "finish"}, Following(w),
         UNCHANGED <<book, stored, naming, fresh, shown, edge, owed, newly, task>>,
         NEW H \in SUBSET Entity, hand' = [hand EXCEPT ![w] = H], hand[w] \subseteq H,
         \A e \in hand[w] : view'[w][e] = view[w][e] \/ e[1] = "contact" \/ Kept(w, e)',
         \A e \in H \ hand[w] : Kept(w, e)', Tasked(w)'
  PROVE  RefsInv'
<1>0. RunTypes /\ Held /\ Honest /\ Closed /\ Linked /\ Reading BY DEF EntityTypes, RefsInv
<1>1. at'[w] \in 2 .. 21 /\ \A x \in Worker : x # w => at[x] = 0 /\ at'[x] = 0
  BY <1>0, SyncAhead
<1>2. hand'[w] = H /\ \A x \in Worker : x # w => hand'[x] = hand[x] BY <1>0 DEF RunTypes
<1>3. Honest' BY <1>0 DEF Honest
<1>4. ASSUME NEW e \in hand[w] PROVE Kept(w, e)'
  <2>1. CASE Kept(w, e)' BY <2>1
  <2>2. CASE view'[w][e] = view[w][e] \/ e[1] = "contact"
    <3>1. at[w] \in 2 .. 20
      <4>1. at[w] = 1 => hand[w] = {} BY <1>0 DEF Held
      <4> QED BY <4>1
    <3> QED BY <1>0, <1>2, <2>2, <3>1, StillKept
  <2> QED BY <2>1, <2>2
<1>5. Held'
  <2>1. \A e \in hand'[w] : Kept(w, e)' BY <1>2, <1>4
  <2>2. ~(at'[w] < 2) BY <1>1
  <2> QED BY <1>0, <1>1, <1>2, <2>1, <2>2, HeldBy
<1>6. /\ stored' \subseteq stored /\ fresh' = fresh \cap stored'
      /\ OfKind(stored, Fetchable \ {"visit"}) \subseteq stored'
      /\ \A e \in stored : e[1] \in Fetchable
  BY <1>0 DEF Honest, OfKind, EntityTypes, RawTypes
<1>7. Closed' BY <1>0, <1>2, <1>6, StillClosed
<1>8. Linked' BY <1>0, <1>6, SyncLinked
<1>9. Reading'
  <2>1. at'[w] \in 0 .. 21 BY <1>1
  <2> QED BY <1>0, <1>1, <2>1, SyncReading
<1> QED BY <1>3, <1>5, <1>7, <1>8, <1>9 DEF RefsInv

-----------------------------------------------------------------------------
(* The steps of a run that fetches, one by one.                            *)

\* A reference changed in ServiceTrade.
LEMMA AssignRefs ==
  ASSUME EntityTypes, RefsInv, Fixed, NEW e \in Entity, NEW t \in Book[e], Assign(e, t)
  PROVE  RefsInv'
<1>1. /\ book' = [book EXCEPT ![e] = IF t \in @ THEN @ \ {t} ELSE @ \cup {t}]
      /\ t[1] \notin {"job", "customer", "location"}
      /\ UNCHANGED <<stored, naming, fresh, shown, edge, owed, at, task, hand, view, whole, scope, newly>>
  BY DEF Assign, Fixed, rawState, platState, runState
<1> HIDE DEF Assign
<1>2. book \in [Entity -> SUBSET Entity] BY DEF EntityTypes, CrmTypes
<1>3. ASSUME NEW f \in Entity
      PROVE  /\ book'[f] \subseteq Book[f]
             /\ OfKind(Book[f], {"job", "customer", "location"}) \subseteq book'[f]
  <2>1. /\ book[f] \subseteq Book[f]
        /\ OfKind(Book[f], {"job", "customer", "location"}) \subseteq book[f]
    BY DEF RefsInv, Honest
  <2>2. CASE f # e BY <1>1, <1>2, <2>1, <2>2
  <2>3. CASE f = e
    <3>1. book'[f] \in {book[e] \ {t}, book[e] \cup {t}} BY <1>1, <1>2, <2>3
    <3> QED BY <1>1, <2>1, <2>3, <3>1 DEF OfKind
  <2> QED BY <2>2, <2>3
<1>4. Honest' BY <1>1, <1>3 DEF RefsInv, Honest
<1>5. Held'
  <2>1. \A x \in Worker : /\ Tasked(x)' <=> Tasked(x)
                          /\ \A f : Kept(x, f)' <=> Kept(x, f)
    BY <1>1 DEF Tasked, Kept
  <2> QED BY <1>1, <2>1 DEF RefsInv, Held
<1>6. Closed' BY <1>1 DEF RefsInv, Closed, Bringing, InDebt
<1>7. Reading' BY <1>1 DEF RefsInv, Reading, ReadIn
<1>8. Linked' BY <1>1 DEF RefsInv, Linked, HasRow, HasRefs, Shows, Right, Ahead, InDebt
<1> QED BY <1>4, <1>5, <1>6, <1>7, <1>8 DEF RefsInv

\* A step that changes none of this.
LEMMA SameRefs ==
  ASSUME RefsInv, UNCHANGED <<book, stored, naming, fresh, shown, edge, owed, at, task, hand, view,
                              whole, scope, newly>>
  PROVE  RefsInv'
<1>1. Honest' BY DEF RefsInv, Honest
<1>2. Held'
  <2>1. \A x \in Worker : /\ Tasked(x)' <=> Tasked(x)
                          /\ \A f : Kept(x, f)' <=> Kept(x, f)
    BY DEF Tasked, Kept
  <2> QED BY <2>1 DEF RefsInv, Held
<1>3. Closed' BY DEF RefsInv, Closed, Bringing, InDebt
<1>4. Reading' BY DEF RefsInv, Reading, ReadIn
<1>5. Linked' BY DEF RefsInv, Linked, HasRow, HasRefs, Shows, Right, Ahead, InDebt
<1> QED BY <1>1, <1>2, <1>3, <1>4, <1>5 DEF RefsInv

\* A run begins: its jobs are owed or due.
LEMMA BeginRefs ==
  ASSUME EntityTypes, RefsInv, ~RunsOverlap, NEW w \in Worker, NEW J, Begin(w, J)
  PROVE  RefsInv'
<1>1. /\ AtWork = {} /\ at' = [at EXCEPT ![w] = 1]
      /\ UNCHANGED <<book, stored, naming, fresh, shown, edge, owed, hand, view, whole, scope, newly>>
  BY DEF Begin, crmState, rawState, platState
<1> HIDE DEF Begin
<1>2. at \in [Worker -> Nat] BY DEF EntityTypes, RunTypes
<1>3. \A x \in Worker : at[x] = 0 /\ at'[x] \in {0, 1} BY <1>1, <1>2 DEF AtWork
<1>4. \A x \in Worker : hand[x] = {} BY <1>3 DEF RefsInv, Held
<1>5. Honest' BY <1>1 DEF RefsInv, Honest
<1>6. Held' BY <1>1, <1>3, <1>4 DEF RefsInv, Held
<1>7. Closed'
  <2>1. \A x \in Worker : \A e, t : ~Bringing(x, e, t) BY <1>3 DEF Bringing
  <2> QED BY <1>1, <2>1 DEF RefsInv, Closed, InDebt
<1>8. Reading' BY <1>1, <1>3 DEF RefsInv, Reading
<1>9. Linked'
  <2>1. \A n \in 21 .. 49 : Ahead(n)' BY <1>3 DEF Ahead
  <2>2. \A e \in stored : e[1] \in Fetchable BY DEF RefsInv, Honest
  <2>3. ASSUME NEW e \in stored PROVE HasRow(e)' /\ \A kind \in RefKinds(e[1]) : HasRefs(e, kind)'
    <3>1. /\ RowsAt(e[1]) \in 21 .. 49
          /\ \A kind \in RefKinds(e[1]) : LastPass(e[1], kind) \in 21 .. 49
      BY <2>2, PassNumbers
    <3>2. HasRow(e) /\ \A kind \in RefKinds(e[1]) : HasRefs(e, kind) BY DEF RefsInv, Linked
    <3> QED BY <1>1, <2>1, <3>1, <3>2 DEF HasRow, HasRefs, Right, InDebt
  <2>4. \A e \in stored \ fresh : Shows(e)' BY <1>1 DEF RefsInv, Linked, Shows, InDebt
  <2> QED BY <1>1, <2>3, <2>4 DEF Linked
<1> QED BY <1>5, <1>6, <1>7, <1>8, <1>9 DEF RefsInv

-----------------------------------------------------------------------------
\* What ServiceTrade says of a record a run asks about.
LEMMA Told ==
  ASSUME EntityTypes, Honest, NEW X \in SUBSET Entity, NEW kinds
  PROVE  /\ \A e \in X : OfKind(book[e], kinds) \subseteq Up(X, kinds)
         /\ Up(X, kinds) \subseteq OfKind(Entity, kinds)
         /\ \A t \in Up(X, kinds) : \E e \in X : t \in book[e] /\ t \in Book[e]
BY DEF Up, OfKind, EntityTypes, CrmTypes, Honest

\* A run has fetched its jobs.
LEMMA DetailRefs ==
  ASSUME EntityTypes, RefsInv, WellBooked, NEW w \in Worker, Detail(w)
  PROVE  RefsInv'
<1> DEFINE T == task[w]
           places == Up(T, {"location"})
           parts == Up(places, {"office", "tag", "contact"})
           rest == Up(T, {"customer", "user", "project", "office", "tag", "contact"})
           X == T \cup places \cup parts \cup rest
<1>1. /\ at[w] # 0 /\ Program[at[w]].do = "details" /\ Following(w)
      /\ hand' = [hand EXCEPT ![w] = @ \cup X]
      /\ view' = [view EXCEPT ![w] = [e \in Entity |-> IF e \in X THEN book[e] ELSE @[e]]]
      /\ UNCHANGED <<book, stored, naming, fresh, shown, edge, owed, newly, task, whole>>
  BY DEF Detail, Receive, At, crmState, rawState, platState
<1>2. RunTypes /\ RunOK(w) /\ Held /\ Honest /\ T \subseteq AllJobs /\ book \in [Entity -> SUBSET Entity]
      /\ hand \in [Worker -> SUBSET Entity]
      /\ view \in [Worker -> [Entity -> SUBSET Entity]]
  BY DEF EntityTypes, RunTypes, RunOK, RefsInv, CrmTypes
<1>3. at[w] = 1 /\ hand[w] = {} /\ at'[w] \in 2 .. 3
  <2>1. at[w] = 1 BY <1>1, <1>2, Stations
  <2> QED BY <1>1, <1>2, <2>1, FixedSteps DEF Held
<1>4. T \subseteq Entity /\ \A j \in T : j[1] = "job" BY <1>2 DEF AllJobs, OfKind
<1>5. /\ places \subseteq OfKind(Entity, {"location"})
      /\ \A p \in places : \E j \in T : p \in Book[j]
      /\ \A j \in T : OfKind(book[j], {"location"}) \subseteq places
  BY <1>2, <1>4, Told
<1>6. /\ rest \subseteq OfKind(Entity, {"customer", "user", "project", "office", "tag", "contact"})
      /\ \A j \in T : OfKind(book[j], {"customer", "user", "project", "office", "tag", "contact"})
                        \subseteq rest
  BY <1>2, <1>4, Told
<1> HIDE DEF places
<1>7. places \subseteq Entity /\ \A p \in places : p[1] = "location" BY <1>5 DEF OfKind
<1>8. /\ parts \subseteq OfKind(Entity, {"office", "tag", "contact"})
      /\ \A p \in places : OfKind(book[p], {"office", "tag", "contact"}) \subseteq parts
  BY <1>2, <1>7, Told
<1> HIDE DEF parts, rest
<1>9. X \subseteq Entity BY <1>4, <1>6, <1>7, <1>8 DEF OfKind
<1> DEFINE H == hand[w] \cup X
           V == [e \in Entity |-> IF e \in X THEN book[e] ELSE view[w][e]]
<1>10. hand' = [hand EXCEPT ![w] = H] /\ H \in SUBSET Entity /\ H = X
  BY <1>1, <1>2, <1>3, <1>9
<1>11. hand'[w] = X /\ view'[w] = V /\ \A e \in X : view'[w][e] = book[e]
  BY <1>1, <1>2, <1>9, <1>10
<1>12. ASSUME NEW e \in X PROVE Kept(w, e)'
  <2>1. e \in Entity /\ book[e] \subseteq Book[e] BY <1>2, <1>9 DEF Honest
  <2>2. e[1] \in Fetchable /\ e[1] \notin {"visit", "comment", "request"}
    BY <1>4, <1>6, <1>7, <1>8 DEF OfKind, Fetchable
  <2>3. Refs(e, book[e]) \subseteq X
    <3>1. CASE e \in T
      <4>1. Refs(e, book[e]) \subseteq
              OfKind(book[e], {"location", "customer", "user", "project", "office", "tag", "contact"})
        BY <1>4, <3>1, RefTable DEF Refs, OfKind
      <4> QED BY <1>5, <1>6, <3>1, <4>1 DEF OfKind
    <3>2. CASE e \in places
      <4>1. Refs(e, book[e]) \subseteq OfKind(book[e], {"customer", "contact"})
        BY <1>7, <3>2, RefTable DEF Refs, OfKind
      <4>2. PICK j \in T : e \in Book[j] BY <1>5, <3>2
      <4>3. j \in Entity /\ j \in AllJobs /\ e \in OfKind(Book[j], {"location"})
        BY <1>2, <1>4, <1>7, <3>2, <4>2 DEF OfKind
      <4>4. OfKind(Book[e], {"customer"}) \subseteq Book[j] BY <4>3 DEF WellBooked, AllJobs
      <4>5. OfKind(Book[e], {"customer"}) \subseteq rest
        <5>1. OfKind(Book[j], {"customer"}) \subseteq book[j]
          <6>1. OfKind(Book[j], {"job", "customer", "location"}) \subseteq book[j]
            BY <1>2, <4>3 DEF Honest
          <6> QED BY <6>1 DEF OfKind
        <5>2. OfKind(book[j], {"customer", "user", "project", "office", "tag", "contact"}) \subseteq rest
          BY <1>6
        <5> QED BY <4>4, <5>1, <5>2 DEF OfKind
      <4>6. OfKind(book[e], {"contact"}) \subseteq parts BY <1>8, <3>2 DEF OfKind
      <4> QED BY <2>1, <4>1, <4>5, <4>6 DEF OfKind
    <3>3. CASE e \in parts \cup rest
      <4>1. e[1] \in {"customer", "user", "project", "office", "tag", "contact"}
        BY <1>6, <1>8, <3>3 DEF OfKind
      <4>2. RefKinds(e[1]) = {} BY <4>1, RefTable DEF Fetchable
      <4> QED BY <4>2 DEF Refs, OfKind
    <3> QED BY <3>1, <3>2, <3>3
  <2>4. e[1] \in {"job", "location"} => Owner(e) \cap T # {}
    <3>1. CASE e[1] = "job"
      <4>1. e \in T BY <1>6, <1>7, <1>8, <3>1 DEF OfKind
      <4> QED BY <3>1, <4>1 DEF Owner
    <3>2. CASE e[1] = "location"
      <4>1. e \in places BY <1>4, <1>6, <1>8, <3>2 DEF OfKind
      <4>2. PICK j \in T : e \in Book[j] BY <1>5, <4>1
      <4>3. j \in AllJobs BY <1>2
      <4> QED BY <3>2, <4>2, <4>3 DEF Owner
    <3> QED BY <3>1, <3>2
  <2>5. at'[w] <= LastPut(e[1])
    <3>1. LastPut(e[1]) \in 2 .. 20 BY <2>2, Puts
    <3>2. at[w] < LastPut(e[1]) /\ Program[at[w]].do # "finish" BY <1>1, <1>3, <3>1
    <3> QED BY <1>1, <1>2, <2>1, <2>2, <3>2, StillToPut
  <2>6. Owner(e)' = Owner(e) /\ task'[w] = T BY <1>1 DEF Owner
  <2> HIDE DEF X
  <2> QED BY <1>11, <2>1, <2>2, <2>3, <2>4, <2>5, <2>6 DEF Kept
<1>13. Tasked(w)'
  <2>1. OfKind(X, {"job"}) \subseteq T BY <1>6, <1>7, <1>8 DEF OfKind
  <2>2. ASSUME NEW j \in T PROVE OfKind(Book[j], {"location"}) \subseteq X
    <3>1. j \in Entity BY <1>4
    <3>2. OfKind(Book[j], {"location"}) \subseteq OfKind(book[j], {"location"})
      <4>1. OfKind(Book[j], {"job", "customer", "location"}) \subseteq book[j]
        BY <1>2, <3>1 DEF Honest
      <4> QED BY <4>1 DEF OfKind
    <3> QED BY <1>5, <3>2
  <2>3. ~(at'[w] >= 12) /\ ~(at'[w] >= 13) BY <1>3
  <2> QED BY <1>1, <1>11, <2>1, <2>2, <2>3 DEF Tasked
<1>14. at[w] \in 1 .. 20 /\ Program[at[w]].do \notin {"put", "finish"} BY <1>1, <1>3
<1> HIDE DEF X
<1> QED BY <1>1, <1>3, <1>10, <1>12, <1>13, <1>14, FetchKeeps

\* A run has fetched who its jobs are about.
LEMMA PeopleRefs ==
  ASSUME EntityTypes, RefsInv, NEW w \in Worker, People(w)
  PROVE  RefsInv'
<1>1. PICK listed \in SUBSET OfKind(hand[w], {"customer"}) :
        /\ hand' = [hand EXCEPT ![w] = @ \cup Down(listed, {"contact"})]
        /\ view' = [view EXCEPT ![w] = [e \in Entity |->
             IF e \in OfKind(hand[w], {"contact"}) \cup Down(listed, {"contact"})
             THEN Embedded(w, e) \cup (IF e \in Down(listed, {"contact"}) THEN book[e] ELSE {})
             ELSE @[e]]]
  BY DEF People
<1> DEFINE X == Down(listed, {"contact"})
<1>2. /\ at[w] # 0 /\ Program[at[w]].do = "people" /\ Following(w)
      /\ UNCHANGED <<book, stored, naming, fresh, shown, edge, owed, newly, task>>
  BY DEF People, At, crmState, rawState, platState
<1> HIDE DEF People
<1>3. /\ RunTypes /\ Held /\ book \in [Entity -> SUBSET Entity] /\ hand \in [Worker -> SUBSET Entity]
      /\ view \in [Worker -> [Entity -> SUBSET Entity]]
  BY DEF EntityTypes, RunTypes, RefsInv, CrmTypes
<1>4. at[w] = 3 /\ at'[w] \in 2 .. 11
  <2>1. at[w] = 3 BY <1>2, <1>3, Stations
  <2>2. at'[w] <= 11 /\ at'[w] \in 2 .. 21 BY <1>2, <1>3, <2>1, FixedSteps
  <2> QED BY <2>1, <2>2
<1>5. X \subseteq Entity /\ \A e \in X : e[1] = "contact" BY <1>3, UpDown DEF Down, OfKind
<1> HIDE DEF X
<1>6. hand' = [hand EXCEPT ![w] = hand[w] \cup X] /\ hand[w] \cup X \in SUBSET Entity
      /\ hand'[w] = hand[w] \cup X
  BY <1>1, <1>3, <1>5 DEF X
<1>7. \A e \in hand[w] : view'[w][e] = view[w][e] \/ e[1] = "contact"
  BY <1>1, <1>3, <1>5 DEF X, OfKind
<1>8. ASSUME NEW e \in X PROVE Kept(w, e)'
  <2>1. e \in Entity /\ e[1] = "contact" /\ e[1] \in Fetchable BY <1>5 DEF Fetchable
  <2>2. RefKinds(e[1]) = {} BY <2>1, RefTable DEF Fetchable
  <2>3. \A Y : Refs(e, Y) = {} BY <2>2 DEF Refs, OfKind
  <2>4. at'[w] <= LastPut(e[1])
    <3>1. LastPut(e[1]) = 6 BY <2>1, PutTable
    <3>2. at[w] < LastPut(e[1]) /\ Program[at[w]].do # "finish" BY <1>2, <1>4, <3>1
    <3> QED BY <1>2, <1>3, <2>1, <3>2, StillToPut
  <2> QED BY <2>1, <2>3, <2>4 DEF Kept
<1>9. Tasked(w)'
  <2>1. Tasked(w) BY <1>3, <1>4 DEF Held
  <2>2. ~(at'[w] >= 12) /\ ~(at'[w] >= 13) BY <1>4
  <2>3. OfKind(hand[w] \cup X, {"job"}) \subseteq OfKind(hand[w], {"job"}) BY <1>5 DEF OfKind
  <2> QED BY <1>2, <1>6, <2>1, <2>2, <2>3 DEF Tasked
<1>10. at[w] \in 1 .. 20 /\ Program[at[w]].do \notin {"put", "finish"} BY <1>2, <1>4
<1> QED BY <1>2, <1>6, <1>7, <1>8, <1>9, <1>10, FetchKeeps

\* A run has fetched the comments.
LEMMA CommentsRefs ==
  ASSUME EntityTypes, RefsInv, WellBooked, NEW w \in Worker, Comments(w)
  PROVE  RefsInv'
<1> DEFINE X == Down(task[w], {"comment"})
<1>1. /\ at[w] # 0 /\ Program[at[w]].do = "comments" /\ Following(w)
      /\ hand' = [hand EXCEPT ![w] = @ \cup X]
      /\ view' = [view EXCEPT ![w] = [e \in Entity |-> IF e \in X THEN book[e] ELSE @[e]]]
      /\ UNCHANGED <<book, stored, naming, fresh, shown, edge, owed, newly, task, whole>>
  BY DEF Comments, Receive, At, crmState, rawState, platState
<1>2. /\ RunTypes /\ RunOK(w) /\ Held /\ Honest /\ book \in [Entity -> SUBSET Entity]
      /\ hand \in [Worker -> SUBSET Entity] /\ view \in [Worker -> [Entity -> SUBSET Entity]]
      /\ task[w] \subseteq AllJobs
  BY DEF EntityTypes, RunTypes, RunOK, RefsInv, CrmTypes
<1>3. at[w] = 19 /\ at'[w] \in 20 .. 21
  <2>1. at[w] = 19 BY <1>1, <1>2, Stations
  <2>2. at'[w] \in 2 .. 21 /\ at'[w] > at[w] BY <1>1, <1>2, <2>1, FixedSteps, Advance
  <2> QED BY <2>1, <2>2
<1>4. X \subseteq Entity /\ \A e \in X : e[1] = "comment" /\ book[e] \cap task[w] # {}
  BY <1>2, UpDown DEF Down, OfKind
<1> HIDE DEF X
<1>5. hand' = [hand EXCEPT ![w] = hand[w] \cup X] /\ hand[w] \cup X \in SUBSET Entity
      /\ hand'[w] = hand[w] \cup X
  BY <1>1, <1>2, <1>4
<1>6. \A e \in Entity : view'[w][e] = IF e \in X THEN book[e] ELSE view[w][e]
  BY <1>1, <1>2
<1>7. Tasked(w) /\ hand[w] \subseteq Entity /\ \A e \in hand[w] : Kept(w, e) BY <1>2, <1>3 DEF Held
<1>8. ASSUME NEW e \in X PROVE Kept(w, e)'
  <2>1. e \in Entity /\ e[1] = "comment" /\ e[1] \in Fetchable /\ book[e] \subseteq Book[e]
        /\ OfKind(Book[e], {"job", "customer", "location"}) \subseteq book[e]
    BY <1>2, <1>4 DEF Fetchable, Honest
  <2>2. PICK j \in AllJobs : JobsOf(e) = {j} BY <2>1 DEF WellBooked, AllJobs, OfKind
  <2>3. PICK k \in task[w] : k \in book[e] BY <1>4
  <2>4. k \in JobsOf(e) BY <1>2, <2>1, <2>3 DEF JobsOf, OfKind, AllJobs
  <2>5. JobsOf(e) \subseteq task[w] BY <2>2, <2>3, <2>4
  <2>6. JobsOf(e) \subseteq book[e] BY <2>1 DEF JobsOf, OfKind
  <2>7. Refs(e, book[e]) \subseteq JobsOf(e) BY <2>1, RefTable DEF Refs, OfKind, JobsOf
  <2>8. task[w] \subseteq hand[w] BY <1>7 DEF Tasked
  <2>9. at'[w] <= LastPut(e[1])
    <3>1. LastPut(e[1]) = 20 BY <2>1, PutTable
    <3>2. at[w] < LastPut(e[1]) /\ Program[at[w]].do # "finish" BY <1>1, <1>3, <3>1
    <3> QED BY <1>1, <1>2, <2>1, <3>2, StillToPut
  <2>10. view'[w][e] = book[e] /\ task'[w] = task[w] /\ hand[w] \subseteq hand'[w]
    BY <1>1, <1>5, <1>6, <2>1
  <2> QED BY <2>1, <2>5, <2>6, <2>7, <2>8, <2>9, <2>10 DEF Kept
<1>9. \A e \in hand[w] : view'[w][e] = view[w][e] \/ e[1] = "contact" \/ Kept(w, e)'
  BY <1>6, <1>7, <1>8
<1>10. Tasked(w)'
  <2>1. OfKind(hand[w] \cup X, {"job"}) \subseteq OfKind(hand[w], {"job"}) BY <1>4 DEF OfKind
  <2>2. at[w] >= 12 /\ at[w] >= 13 BY <1>3
  <2> QED BY <1>1, <1>5, <1>7, <2>1, <2>2 DEF Tasked
<1>11. at[w] \in 1 .. 20 /\ Program[at[w]].do \notin {"put", "finish"} BY <1>1, <1>3
<1> QED BY <1>1, <1>5, <1>8, <1>9, <1>10, <1>11, FetchKeeps

\* A run has listed the visits of its jobs, with what they bring.
LEMMA VisitListRefs ==
  ASSUME EntityTypes, RefsInv, WellBooked, NEW w \in Worker, VisitList(w)
  PROVE  RefsInv'
<1>1. PICK full \in SUBSET task[w] : \E some \in SUBSET Down(task[w] \ full, {"visit"}) :
        LET V == Down(full, {"visit"}) \cup some
            Q == Down(V, {"request"})
        IN /\ whole' = [whole EXCEPT ![w] = full]
           /\ Receive(w, V \cup Up(V, {"technician", "office"}) \cup Q \cup Up(Q, {"line"}))
  BY DEF VisitList
<1>2. PICK some \in SUBSET Down(task[w] \ full, {"visit"}) :
        LET V == Down(full, {"visit"}) \cup some
            Q == Down(V, {"request"})
        IN /\ whole' = [whole EXCEPT ![w] = full]
           /\ Receive(w, V \cup Up(V, {"technician", "office"}) \cup Q \cup Up(Q, {"line"}))
  BY <1>1
<1> DEFINE V == Down(full, {"visit"}) \cup some
           team == Up(V, {"technician", "office"})
           Q == Down(V, {"request"})
           lines == Up(Q, {"line"})
           X == V \cup team \cup Q \cup lines
<1>3. /\ whole' = [whole EXCEPT ![w] = full] /\ Following(w)
      /\ hand' = [hand EXCEPT ![w] = @ \cup X]
      /\ view' = [view EXCEPT ![w] = [e \in Entity |-> IF e \in X THEN book[e] ELSE @[e]]]
      /\ UNCHANGED <<book, stored, naming, fresh, shown, edge, owed, newly, task>>
  BY <1>2 DEF Receive, crmState, rawState, platState
<1>4. at[w] # 0 /\ Program[at[w]].do = "visits" BY DEF VisitList, At
<1> HIDE DEF VisitList
<1>5. /\ RunTypes /\ RunOK(w) /\ Held /\ Honest /\ book \in [Entity -> SUBSET Entity]
      /\ hand \in [Worker -> SUBSET Entity] /\ view \in [Worker -> [Entity -> SUBSET Entity]]
      /\ whole \in [Worker -> SUBSET Entity] /\ task[w] \subseteq AllJobs
  BY DEF EntityTypes, RunTypes, RunOK, RefsInv, CrmTypes
<1>6. at[w] = 11 /\ at'[w] = 12
  <2>1. at[w] = 11 BY <1>4, <1>5, Stations
  <2> QED BY <1>3, <1>4, <1>5, <2>1, FixedSteps
<1>7. Tasked(w) /\ hand[w] \subseteq Entity /\ \A e \in hand[w] : Kept(w, e) BY <1>5, <1>6 DEF Held
<1>8. V \subseteq Entity /\ \A v \in V : v[1] = "visit" /\ book[v] \cap task[w] # {}
  BY DEF Down, OfKind
<1> HIDE DEF V
<1>9. team \subseteq OfKind(Entity, {"technician", "office"})
      /\ \A v \in V : OfKind(book[v], {"technician", "office"}) \subseteq team
  BY <1>5, <1>8, Told
<1>10. Q \subseteq Entity /\ \A q \in Q : q[1] = "request" /\ book[q] \cap V # {}
  BY DEF Down, OfKind
<1> HIDE DEF team, Q
<1>11. lines \subseteq OfKind(Entity, {"line"}) /\ \A q \in Q : OfKind(book[q], {"line"}) \subseteq lines
  BY <1>5, <1>10, Told
<1> HIDE DEF lines
<1>12. X \subseteq Entity /\ \A e \in X : e[1] \in {"visit", "technician", "office", "request", "line"}
  BY <1>8, <1>9, <1>10, <1>11 DEF OfKind
<1>13. hand' = [hand EXCEPT ![w] = hand[w] \cup X] /\ hand[w] \cup X \in SUBSET Entity
      /\ hand'[w] = hand[w] \cup X /\ whole'[w] = full
  BY <1>3, <1>5, <1>12
<1>14. \A e \in Entity : view'[w][e] = IF e \in X THEN book[e] ELSE view[w][e]
  <2> HIDE DEF X
  <2> QED BY <1>3, <1>5
<1>15. ASSUME NEW v \in V PROVE JobsOf(v) \subseteq task[w] /\ JobsOf(v) \subseteq book[v]
  <2>1. v \in Entity /\ v[1] = "visit" /\ book[v] \subseteq Book[v]
        /\ OfKind(Book[v], {"job", "customer", "location"}) \subseteq book[v]
    BY <1>5, <1>8 DEF Honest
  <2>2. PICK j \in AllJobs : JobsOf(v) = {j} BY <2>1 DEF WellBooked, AllJobs, OfKind
  <2>3. PICK k \in task[w] : k \in book[v] BY <1>8
  <2>4. k \in JobsOf(v) BY <1>5, <2>1, <2>3 DEF JobsOf, OfKind, AllJobs
  <2>5. JobsOf(v) \subseteq book[v] BY <2>1 DEF JobsOf, OfKind
  <2> QED BY <2>2, <2>3, <2>4, <2>5
<1>16. task[w] \subseteq hand[w] /\ \A j \in task[w] : OfKind(Book[j], {"location"}) \subseteq hand[w]
  BY <1>7 DEF Tasked
<1>17. ASSUME NEW e \in X PROVE Refs(e, book[e]) \subseteq hand[w] \cup X
  <2>1. book[e] \subseteq Book[e] BY <1>5, <1>12 DEF Honest
  <2>2. CASE e \in V
    <3>1. Refs(e, book[e]) \subseteq OfKind(book[e], {"technician", "office"}) \cup JobsOf(e)
      BY <1>8, <2>1, <2>2, RefTable DEF Refs, OfKind, JobsOf
    <3> QED BY <1>9, <1>15, <1>16, <2>2, <3>1
  <2>3. CASE e \in Q
    <3>1. Refs(e, book[e]) \subseteq OfKind(book[e], {"line"}) \cup JobsOf(e) \cup OfKind(Book[e], {"location"})
      BY <1>10, <2>1, <2>3, RefTable DEF Refs, OfKind, JobsOf
    <3>2. PICK v \in V : v \in book[e] BY <1>10, <2>3
    <3>3. e \in OfKind(Entity, {"request"}) /\ v \in OfKind(Book[e], {"visit"})
      BY <1>8, <1>10, <2>1, <2>3, <3>2 DEF OfKind
    <3>4. JobsOf(e) \subseteq Book[v] /\ \A j \in JobsOf(v) : OfKind(Book[e], {"location"}) \subseteq Book[j]
      BY <3>3 DEF WellBooked, AllJobs
    <3>5. JobsOf(e) \subseteq JobsOf(v) BY <3>4 DEF JobsOf, OfKind
    <3>6. \E j \in AllJobs : JobsOf(v) = {j} BY <1>8, <3>2 DEF WellBooked, AllJobs, OfKind
    <3>7. PICK j \in JobsOf(v) : TRUE BY <3>6
    <3>8. j \in task[w] BY <1>15, <3>2, <3>7
    <3>9. OfKind(Book[e], {"location"}) \subseteq OfKind(Book[j], {"location"})
      BY <3>4, <3>7 DEF OfKind
    <3> QED BY <1>11, <1>15, <1>16, <2>3, <3>1, <3>2, <3>5, <3>8, <3>9
  <2>4. CASE e \in team \cup lines
    <3>1. e[1] \in {"technician", "office", "line"} BY <1>9, <1>11, <2>4 DEF OfKind
    <3>2. RefKinds(e[1]) = {} BY <3>1, RefTable DEF Fetchable
    <3> QED BY <3>2 DEF Refs, OfKind
  <2> QED BY <2>2, <2>3, <2>4
<1>18. ASSUME NEW e \in X PROVE Kept(w, e)'
  <2>1. e \in Entity /\ e[1] \in Fetchable /\ e[1] \notin {"contact", "comment", "job", "location"}
    BY <1>12 DEF Fetchable
  <2>2. view'[w][e] = book[e] /\ book[e] \subseteq Book[e] BY <1>5, <1>14, <2>1 DEF Honest
  <2>3. e[1] = "visit" => e \in V BY <1>9, <1>10, <1>11 DEF OfKind
  <2>4. e[1] = "visit" => JobsOf(e) \subseteq book[e] \cap task[w] BY <1>15, <2>3
  <2>5. e[1] = "visit" => Owner(e) \cap task[w] # {}
    <3>1. SUFFICES ASSUME e[1] = "visit" PROVE JobsOf(e) \cap task[w] # {} BY DEF Owner
    <3>2. \E j \in AllJobs : JobsOf(e) = {j} BY <2>1, <3>1 DEF WellBooked, AllJobs, OfKind
    <3> QED BY <2>4, <3>1, <3>2
  <2>6. at'[w] <= LastPut(e[1]) BY <1>6, <1>12, PutTable
  <2>7. Owner(e)' = Owner(e) /\ task'[w] = task[w] BY <1>3 DEF Owner
  <2> HIDE DEF X
  <2> QED BY <1>13, <1>17, <2>1, <2>2, <2>4, <2>5, <2>6, <2>7 DEF Kept
<1> HIDE DEF X
<1>19. \A e \in hand[w] : view'[w][e] = view[w][e] \/ e[1] = "contact" \/ Kept(w, e)'
  BY <1>7, <1>14, <1>18
<1>20. Tasked(w)'
  <2>1. OfKind(hand[w] \cup X, {"job"}) \subseteq OfKind(hand[w], {"job"}) BY <1>12 DEF OfKind
  <2>2. ~(at'[w] >= 13) BY <1>6
  <2> QED BY <1>3, <1>7, <1>13, <2>1, <2>2 DEF Tasked
<1>21. at[w] \in 1 .. 20 /\ Program[at[w]].do \notin {"put", "finish"} BY <1>4, <1>6
<1> QED BY <1>3, <1>13, <1>18, <1>19, <1>20, <1>21, FetchKeeps

\* A run prunes visits.
LEMMA PruneRefs ==
  ASSUME EntityTypes, RefsInv, NEW w \in Worker, Prune(w)
  PROVE  RefsInv'
<1>1. /\ at[w] # 0 /\ Program[at[w]].do = "prune" /\ Following(w)
      /\ stored' = stored \ Missing(w) /\ fresh' = fresh \ Missing(w)
      /\ UNCHANGED <<book, naming, shown, edge, owed, newly, task, hand, view, whole>>
  BY DEF Prune, At, crmState, platState
<1> HIDE DEF Prune
<1>2. /\ RunTypes /\ RunOK(w) /\ Held /\ Honest /\ Closed /\ Linked /\ Reading
      /\ stored \subseteq Entity /\ fresh \subseteq stored
  BY DEF EntityTypes, RunTypes, RefsInv, RawTypes
<1>3. at[w] = 12 /\ at'[w] = 13
  <2>1. at[w] = 12 BY <1>1, <1>2, Stations
  <2> QED BY <1>1, <1>2, <2>1, FixedSteps
<1>4. Tasked(w) /\ \A e \in hand[w] : Kept(w, e) BY <1>2, <1>3 DEF Held
<1>5. Missing(w) \cap hand[w] = {} /\ \A v \in Missing(w) : v[1] = "visit"
  BY DEF Missing, OfKind
<1>6. Honest'
  <2>1. ASSUME NEW e \in stored', e[1] = "comment" PROVE JobsOf(e) \subseteq stored'
    <3>1. JobsOf(e) \subseteq stored BY <1>1, <1>2, <2>1 DEF Honest
    <3>2. JobsOf(e) \cap Missing(w) = {} BY <1>5 DEF JobsOf, OfKind
    <3> QED BY <1>1, <3>1, <3>2
  <2> QED BY <1>1, <1>2, <2>1 DEF Honest
<1>7. ASSUME NEW v \in OfKind(stored', {"visit"}), JobsOf(v) \cap whole[w] # {} PROVE v \in hand[w]
  <2>1. v \in stored /\ v[1] = "visit" /\ v \notin Missing(w) BY <1>1 DEF OfKind
  <2>2. JobsOf(v) \subseteq naming[v] BY <1>2, <2>1 DEF Honest
  <2> QED BY <1>7, <2>1, <2>2 DEF Missing, OfKind
<1>8. Tasked(w)'
  <2>1. at[w] >= 12 BY <1>3
  <2> QED BY <1>1, <1>4, <1>7, <2>1 DEF Tasked
<1>9. ASSUME NEW e \in hand[w] PROVE Kept(w, e)'
  <2>1. e \in fresh => e \in fresh' BY <1>1, <1>5
  <2>2. at[w] \in 2 .. 20 /\ Program[at[w]].do \notin {"put", "finish"} BY <1>1, <1>3
  <2> QED BY <1>1, <1>2, <2>1, <2>2, StillKept
<1>10. at[w] \in 1 .. 20 /\ Program[at[w]].do # "finish" BY <1>1, <1>3
<1>11. at'[w] \in 2 .. 21 /\ \A x \in Worker : x # w => at[x] = 0 /\ at'[x] = 0
  BY <1>1, <1>2, <1>10, SyncAhead
<1>12. Held'
  <2>1. ~(at'[w] < 2) BY <1>3
  <2> QED BY <1>1, <1>2, <1>8, <1>9, <1>11, <2>1, HeldBy
<1>13. /\ stored' \subseteq stored /\ fresh' = fresh \cap stored'
       /\ OfKind(stored, Fetchable \ {"visit"}) \subseteq stored'
       /\ \A e \in stored : e[1] \in Fetchable
  <2>1. OfKind(stored, Fetchable \ {"visit"}) \subseteq stored' BY <1>1, <1>5 DEF OfKind
  <2> QED BY <1>1, <1>2, <2>1 DEF Honest
<1>14. Closed' BY <1>1, <1>2, <1>10, <1>13, StillClosed
<1>15. Linked' BY <1>1, <1>2, <1>10, <1>13, SyncLinked
<1>16. Reading'
  <2>1. at'[w] \in 0 .. 21 BY <1>3
  <2> QED BY <1>1, <1>2, <1>11, <2>1, SyncReading
<1> QED BY <1>6, <1>12, <1>14, <1>15, <1>16 DEF RefsInv

\* A run marks visits cancelled.
LEMMA CancelRefs ==
  ASSUME EntityTypes, RefsInv, NEW w \in Worker, CancelMissing(w)
  PROVE  RefsInv'
<1>1. /\ at[w] # 0 /\ Program[at[w]].do = "cancel" /\ Following(w)
      /\ UNCHANGED <<book, stored, naming, fresh, shown, edge, owed, newly, task, hand, view, whole>>
  BY DEF CancelMissing, At, crmState, rawState
<1> HIDE DEF CancelMissing
<1>2. RunTypes /\ Held /\ hand \in [Worker -> SUBSET Entity] BY DEF EntityTypes, RefsInv, RunTypes
<1>3. at[w] = 13 BY <1>1, <1>2, Stations
<1>4. Tasked(w) BY <1>2, <1>3 DEF Held
<1>5. hand[w] \in SUBSET Entity /\ hand' = [hand EXCEPT ![w] = hand[w]] BY <1>1, <1>2
<1>6. Tasked(w)'
  <2>1. at[w] >= 12 /\ at[w] >= 13 BY <1>3
  <2> QED BY <1>1, <1>4, <2>1 DEF Tasked
<1>7. at[w] \in 1 .. 20 /\ Program[at[w]].do \notin {"put", "finish"} BY <1>1, <1>3
<1> QED BY <1>1, <1>5, <1>6, <1>7, FetchKeeps

-----------------------------------------------------------------------------
(* Raw rows.                                                               *)

\* What is in hand has its raw row once the last upsert of its kind is done.
LEMMA RawByThen ==
  ASSUME RawTypes, Held, NEW w \in Worker, at[w] \in 2 .. 21, NEW e \in hand[w], LastPut(e[1]) < at[w]
  PROVE  e[1] \in Fetchable /\ e \in fresh /\ e \in stored /\ Refs(e, naming[e]) \subseteq hand[w]
<1>1. Kept(w, e) BY DEF Held
<1>2. e[1] \in Fetchable BY <1>1 DEF Kept
<1>3. LastPut(e[1]) \in 2 .. 20 BY <1>2, Puts
<1>4. ~(at[w] <= LastPut(e[1])) BY <1>3
<1>5. e \in fresh /\ Refs(e, naming[e]) \subseteq hand[w] BY <1>1, <1>4 DEF Kept
<1> QED BY <1>2, <1>5 DEF RawTypes

\* A run stores raw rows.
LEMMA PutRefs ==
  ASSUME EntityTypes, RefsInv, WellBooked, NEW w \in Worker, UpsertBatch(w)
  PROVE  RefsInv'
<1> DEFINE U == Upserted(w)
           i == Program[at[w]]
<1>1. /\ at[w] # 0 /\ i.do = "put" /\ Following(w)
      /\ stored' = stored \cup U /\ fresh' = fresh \cup U
      /\ naming' = [e \in Entity |-> IF e \in U THEN OfKind(view[w][e], i.to) ELSE naming[e]]
      /\ UNCHANGED <<book, shown, edge, owed, newly, task, hand, view, whole>>
      /\ U = OfKind(hand[w], {i.kind})
  BY DEF UpsertBatch, At, crmState, platState, Upserted
<1> HIDE DEF UpsertBatch, U
<1>2. /\ RunTypes /\ RunOK(w) /\ Held /\ Honest /\ Closed /\ Linked /\ Reading /\ RawTypes
      /\ stored \subseteq Entity /\ fresh \subseteq stored /\ hand[w] \subseteq Entity
      /\ naming \in [Entity -> SUBSET Entity] /\ task[w] \subseteq AllJobs
  BY DEF EntityTypes, RunTypes, RefsInv, RawTypes, RunOK
<1>3. at[w] \in 2 .. 20 BY <1>1, <1>2, Stations
<1>4. Tasked(w) /\ \A e \in hand[w] : Kept(w, e) BY <1>2, <1>3 DEF Held
<1>5. /\ i.kind \in Fetchable /\ at[w] <= LastPut(i.kind)
      /\ i.kind # "office" => at[w] = LastPut(i.kind)
      /\ i.kind \in {"visit", "comment"} => "job" \in i.to
  BY <1>1, <1>3, PutsAt
<1>6. U \subseteq hand[w] /\ \A e : e \in U <=> e \in hand[w] /\ e[1] = i.kind
  BY <1>1 DEF OfKind
<1>7. \A e \in Entity : naming'[e] = IF e \in U THEN OfKind(view[w][e], i.to) ELSE naming[e]
  BY <1>1
<1> HIDE DEF i
<1>8. \A e \in U : naming'[e] \subseteq view[w][e] /\ Refs(e, naming'[e]) \subseteq Refs(e, view[w][e])
  BY <1>2, <1>6, <1>7 DEF OfKind, Refs
<1>9. at'[w] \in 2 .. 21 /\ \A x \in Worker : x # w => at[x] = 0 /\ at'[x] = 0
  <2>1. Program[at[w]].do # "finish" /\ at[w] \in 1 .. 20 BY <1>1, <1>3 DEF i
  <2> QED BY <1>1, <1>2, <2>1, SyncAhead
\* A job named by what is upserted now is in hand and has its raw row.
<1>10. ASSUME NEW e \in U, e[1] \in {"visit", "comment"}
       PROVE  JobsOf(e) \subseteq naming'[e] /\ JobsOf(e) \subseteq fresh /\ JobsOf(e) \subseteq hand[w]
  <2>1. JobsOf(e) \subseteq view[w][e] \cap task[w] BY <1>4, <1>6, <1>10 DEF Kept
  <2>2. JobsOf(e) \subseteq naming'[e]
    <3>1. naming'[e] = OfKind(view[w][e], i.to) /\ "job" \in i.to BY <1>2, <1>5, <1>6, <1>7, <1>10
    <3> QED BY <2>1, <3>1 DEF JobsOf, OfKind
  <2>3. JobsOf(e) \subseteq hand[w] BY <1>4, <2>1 DEF Tasked
  <2>4. ASSUME NEW j \in JobsOf(e) PROVE j \in fresh
    <3>1. j \in hand[w] /\ j[1] = "job" BY <2>3 DEF JobsOf, OfKind
    <3>2. LastPut(j[1]) < at[w] BY <1>3, <1>5, <1>6, <1>10, <3>1, PutTable
    <3> QED BY <1>2, <1>3, <3>1, <3>2, RawByThen
  <2> QED BY <2>2, <2>3, <2>4
<1>11. Honest'
  <2>1. ASSUME NEW e \in Entity, e[1] # "contact" PROVE naming'[e] \subseteq Book[e]
    <3>1. CASE e \in U BY <1>4, <1>6, <1>8, <2>1, <3>1 DEF Kept
    <3>2. CASE e \notin U BY <1>2, <1>7, <2>1, <3>2 DEF Honest
    <3> QED BY <3>1, <3>2
  <2>2. ASSUME NEW e \in stored'
        PROVE  /\ e[1] \in Fetchable
               /\ e[1] \in {"visit", "comment"} => JobsOf(e) \subseteq naming'[e]
               /\ e[1] = "comment" => JobsOf(e) \subseteq stored'
    <3>1. CASE e \in U BY <1>1, <1>2, <1>5, <1>6, <1>10, <3>1
    <3>2. CASE e \notin U
      <4>1. e \in stored /\ e \in Entity BY <1>1, <1>2, <2>2, <3>2
      <4>2. naming'[e] = naming[e] BY <1>7, <3>2, <4>1
      <4> QED BY <1>1, <1>2, <4>1, <4>2 DEF Honest
    <3> QED BY <3>1, <3>2
  <2> QED BY <1>1, <1>2, <2>1, <2>2 DEF Honest
<1>12. Held'
  <2>1. Tasked(w)'
    <3>1. at'[w] >= 12 => at[w] >= 12
      <4>1. at[w] <= 10 => at'[w] <= 11
        <5>1. Program[at[w]].do # "finish" BY <1>1 DEF i
        <5> QED BY <1>1, <1>2, <5>1, FixedSteps
      <4>2. at[w] # 11
        <5>1. Program[11].do = "visits"
          <6>1. 11 \in 1 .. 49 OBVIOUS
          <6> QED BY <6>1, ProgramListed, Listed DEF Do
        <5> QED BY <1>1, <5>1 DEF i
      <4> QED BY <1>3, <1>9, <4>1, <4>2
    <3>2. at'[w] >= 13 => at[w] >= 13
      <4>1. at[w] # 12
        <5>1. Program[12].do = "prune"
          <6>1. 12 \in 1 .. 49 OBVIOUS
          <6> QED BY <6>1, ProgramListed, Listed DEF Do
        <5> QED BY <1>1, <5>1 DEF i
      <4> QED BY <1>3, <1>9, <3>1, <4>1
    <3>3. ASSUME at'[w] >= 13, NEW v \in OfKind(stored', {"visit"}), JobsOf(v) \cap whole[w] # {}
          PROVE  v \in hand[w]
      <4>1. CASE v \in U BY <1>6, <4>1
      <4>2. CASE v \notin U
        <5>1. v \in OfKind(stored, {"visit"}) BY <1>1, <3>3, <4>2 DEF OfKind
        <5> QED BY <1>4, <3>2, <3>3, <5>1 DEF Tasked
      <4> QED BY <4>1, <4>2
    <3> QED BY <1>1, <1>4, <3>1, <3>3 DEF Tasked
  <2>2. ASSUME NEW e \in hand[w] PROVE Kept(w, e)'
    <3>1. Kept(w, e) /\ e \in Entity BY <1>2, <1>4
    <3>2. e[1] \in Fetchable BY <3>1 DEF Kept
    <3>3. at'[w] <= LastPut(e[1]) \/ (e \in fresh' /\ Refs(e, naming'[e]) \subseteq hand[w])
      <4>1. CASE e \in U
        <5>1. Refs(e, view[w][e]) \subseteq hand[w] BY <3>1 DEF Kept
        <5> QED BY <1>1, <1>8, <4>1, <5>1
      <4>2. CASE e \notin U /\ at[w] <= LastPut(e[1])
        <5>1. LastPut(e[1]) \in 2 .. 20 /\ Program[LastPut(e[1])].kind = e[1] BY <3>2, Puts
        <5>2. at[w] # LastPut(e[1]) BY <1>6, <4>2, <5>1 DEF i
        <5>3. at[w] < LastPut(e[1]) /\ Program[at[w]].do # "finish"
          BY <1>1, <1>3, <4>2, <5>1, <5>2 DEF i
        <5> QED BY <1>1, <1>2, <3>1, <3>2, <5>3, StillToPut
      <4>3. CASE e \notin U /\ ~(at[w] <= LastPut(e[1]))
        <5>1. e \in fresh /\ Refs(e, naming[e]) \subseteq hand[w] BY <3>1, <4>3 DEF Kept
        <5>2. naming'[e] = naming[e] BY <1>7, <3>1, <4>3
        <5> QED BY <1>1, <5>1, <5>2
      <4> QED BY <4>1, <4>2, <4>3
    <3>4. Owner(e)' = Owner(e) BY DEF Owner
    <3> QED BY <1>1, <3>1, <3>3, <3>4 DEF Kept
  <2>3. ~(at'[w] < 2) BY <1>9
  <2> QED BY <1>1, <1>2, <1>9, <2>1, <2>2, <2>3, HeldBy
<1>13. Closed'
  <2> SUFFICES ASSUME NEW e \in stored', NEW t \in Refs(e, naming'[e])
               PROVE  t \in stored' \/ InDebt(e)' \/ \E x \in Worker : Bringing(x, e, t)'
    BY DEF Closed
  <2>1. CASE e \in U
    <3>1. Kept(w, e) /\ e \in hand[w] /\ e[1] = i.kind BY <1>4, <1>6, <2>1
    <3>2. t \in hand[w] /\ t[1] \in RefKinds(e[1]) \ {"visit", "contract"}
      BY <1>8, <2>1, <3>1 DEF Kept, Refs, OfKind
    <3>3. CASE e[1] \in {"job", "location", "visit"}
      <4>1. Owner(e) \cap task[w] # {} BY <3>1, <3>3 DEF Kept
      <4>2. Bringing(w, e, t)' BY <1>1, <1>9, <2>1, <3>1, <3>2, <4>1 DEF Bringing, Owner
      <4> QED BY <4>2
    <3>4. CASE e[1] \in {"comment", "request"}
      <4>1. LastPut(t[1]) < at[w]
        <5>1. at[w] = LastPut(e[1]) BY <1>5, <3>1, <3>4
        <5>2. t[1] \in {"job", "location", "line"} BY <3>2, <3>4, RefTable
        <5> QED BY <3>4, <5>1, <5>2, PutTable
      <4>2. t \in stored BY <1>2, <1>3, <3>2, <4>1, RawByThen
      <4> QED BY <1>1, <4>2
    <3>5. CASE e[1] \notin {"job", "location", "visit", "comment", "request"}
      <4>1. RefKinds(e[1]) = {} BY <1>5, <3>1, <3>5, RefTable
      <4> QED BY <3>2, <4>1
    <3> QED BY <3>3, <3>4, <3>5
  <2>2. CASE e \notin U
    <3>1. e \in stored /\ naming'[e] = naming[e] BY <1>1, <1>2, <1>7, <2>2
    <3>2. t \in stored \/ InDebt(e) \/ \E x \in Worker : Bringing(x, e, t) BY <1>2, <3>1 DEF Closed
    <3>3. ASSUME NEW x \in Worker, Bringing(x, e, t) PROVE Bringing(x, e, t)'
      <4>1. x = w BY <1>9, <3>3 DEF Bringing
      <4> QED BY <1>1, <1>9, <3>3, <4>1 DEF Bringing, Owner
    <3> QED BY <1>1, <3>2, <3>3 DEF InDebt
  <2> QED BY <2>1, <2>2
<1>14. Reading'
  <2>1. at'[w] \in 0 .. 21 BY <1>9
  <2> QED BY <1>1, <1>2, <1>9, <2>1, SyncReading
<1>15. Linked'
  <2>1. \A n \in 21 .. 49 : Ahead(n)'
    <3>1. Program[at[w]].do # "finish" /\ at[w] \in 1 .. 20 BY <1>1, <1>3 DEF i
    <3> QED BY <1>1, <1>2, <3>1, SyncAhead
  <2>2. ASSUME NEW e \in stored'
        PROVE  HasRow(e)' /\ \A kind \in RefKinds(e[1]) : HasRefs(e, kind)'
    <3>1. e[1] \in Fetchable BY <1>11 DEF Honest
    <3>2. RowsAt(e[1]) \in 21 .. 49 /\ \A kind \in RefKinds(e[1]) : LastPass(e[1], kind) \in 21 .. 49
      BY <3>1, PassNumbers
    <3>3. CASE e \in U BY <1>1, <2>1, <3>2, <3>3 DEF HasRow, HasRefs
    <3>4. CASE e \notin U
      <4>1. e \in stored /\ naming'[e] = naming[e] BY <1>1, <1>2, <1>7, <2>2, <3>4
      <4>2. HasRow(e) /\ \A kind \in RefKinds(e[1]) : HasRefs(e, kind) BY <1>2, <4>1 DEF Linked
      <4>3. HasRow(e)' BY <1>1, <2>1, <3>2, <4>2 DEF HasRow
      <4>4. ASSUME NEW kind \in RefKinds(e[1]) PROVE HasRefs(e, kind)'
        <5>1. HasRefs(e, kind) /\ Ahead(LastPass(e[1], kind))' BY <2>1, <3>2, <4>2
        <5>2. Right(e, kind) => Right(e, kind)' BY <1>1, <4>1 DEF Right
        <5>3. InDebt(e) => InDebt(e)' BY <1>1 DEF InDebt
        <5> QED BY <1>1, <5>1, <5>2, <5>3 DEF HasRefs
      <4> QED BY <4>3, <4>4
    <3> QED BY <3>3, <3>4
  <2>3. ASSUME NEW e \in stored' \ fresh', ~InDebt(e),
               NEW t \in OfKind(naming'[e] \cap stored', RefKinds(e[1]))
        PROVE  t \in shown
    <3>1. e \in stored \ fresh /\ e \notin U /\ e \in Entity BY <1>1, <1>2, <2>3
    <3>2. naming'[e] = naming[e] /\ Shows(e) BY <1>2, <1>7, <3>1 DEF Linked
    <3>3. t \in naming[e] /\ t \in stored' /\ t[1] \in RefKinds(e[1]) BY <3>2 DEF OfKind
    <3>4. CASE t \in stored
      <4>1. t \in OfKind(naming[e] \cap stored, RefKinds(e[1])) BY <3>3, <3>4 DEF OfKind
      <4> QED BY <2>3, <3>2, <4>1 DEF Shows
    <3>5. CASE t \notin stored
      <4>1. t \in U /\ t[1] = i.kind /\ t \in hand[w] BY <1>1, <1>6, <3>3, <3>5
      <4>2. t[1] = "visit"
        <5>1. t[1] # "contract" BY <1>5, <4>1 DEF Fetchable
        <5>2. SUFFICES ASSUME t[1] # "visit" PROVE FALSE OBVIOUS
        <5>3. t \in Refs(e, naming[e]) BY <3>3, <5>1, <5>2 DEF Refs, OfKind
        <5>4. \E x \in Worker : Bringing(x, e, t) BY <1>2, <2>3, <3>1, <3>5, <5>3 DEF Closed
        <5> QED BY <3>1, <5>4 DEF Bringing
      <4>3. e[1] = "job"
        <5>1. e[1] \in Fetchable BY <1>2, <3>1 DEF Honest
        <5> QED BY <3>3, <4>2, <5>1, RefTable
      <4>4. t \in OfKind(Book[e], {"visit"}) /\ e \in AllJobs
        BY <1>2, <3>1, <3>3, <4>2, <4>3 DEF Honest, OfKind, AllJobs
      <4>5. e \in JobsOf(t) BY <4>3, <4>4 DEF WellBooked, AllJobs, JobsOf, OfKind
      <4>6. e \in fresh BY <1>10, <4>1, <4>2, <4>5
      <4> QED BY <3>1, <4>6
    <3> QED BY <3>4, <3>5
  <2>4. ASSUME NEW e \in stored' \ fresh' PROVE Shows(e)'
    <3>1. CASE InDebt(e) BY <1>1, <3>1 DEF Shows, InDebt
    <3>2. CASE ~InDebt(e) BY <1>1, <2>3, <3>2 DEF Shows
    <3> QED BY <3>1, <3>2
  <2> QED BY <2>2, <2>4 DEF Linked
<1> QED BY <1>11, <1>12, <1>13, <1>14, <1>15 DEF RefsInv

-----------------------------------------------------------------------------
(* Runs that normalize.                                                    *)

\* What a run has in hand when it begins to normalize.
LEMMA AllBrought ==
  ASSUME EntityTypes, RefsInv, NEW w \in Worker, at[w] = 21
  PROVE  /\ \A e \in hand[w] : e \in fresh /\ e \in stored /\ Refs(e, naming[e]) \subseteq stored
         /\ whole[w] \subseteq task[w] /\ task[w] \subseteq AllJobs
         /\ \A e \in stored : Owner(e) \cap whole[w] # {} => e \in hand[w]
<1>1. /\ RunTypes /\ RawTypes /\ Held /\ RunOK(w) /\ stored \subseteq Entity
      /\ Tasked(w) /\ \A e \in hand[w] : Kept(w, e)
  BY DEF EntityTypes, RunTypes, RawTypes, RefsInv, Held
<1>2. ASSUME NEW e \in hand[w]
  PROVE e \in fresh /\ e \in stored /\ Refs(e, naming[e]) \subseteq hand[w]
  <2>1. e[1] \in Fetchable BY <1>1 DEF Kept
  <2>2. LastPut(e[1]) < at[w]
    <3>1. LastPut(e[1]) \in 2 .. 20 BY <2>1, Puts
    <3> QED BY <3>1
  <2> QED BY <1>1, <2>2, RawByThen
<1>3. whole[w] \subseteq task[w] /\ task[w] \subseteq AllJobs BY <1>1 DEF Tasked, RunOK
<1>4. ASSUME NEW e \in stored, Owner(e) \cap whole[w] # {} PROVE e \in hand[w]
  <2>1. PICK j \in whole[w] : j \in Owner(e) BY <1>4
  <2>2. j \in task[w] BY <1>3, <2>1
  <2>3. CASE e[1] = "job" BY <1>1, <2>1, <2>2, <2>3 DEF Owner, Tasked
  <2>4. CASE e[1] = "location"
    <3>1. e \in OfKind(Book[j], {"location"}) BY <2>1, <2>4 DEF Owner, OfKind
    <3> QED BY <1>1, <2>2, <3>1 DEF Tasked
  <2>5. CASE e[1] = "visit"
    <3>1. JobsOf(e) \cap whole[w] # {} BY <1>4, <2>5 DEF Owner
    <3>2. e \in OfKind(stored, {"visit"}) BY <2>5 DEF OfKind
    <3> QED BY <1>1, <3>1, <3>2 DEF Tasked
  <2>6. CASE e[1] \notin {"job", "location", "visit"} BY <2>1, <2>6 DEF Owner
  <2> QED BY <2>3, <2>4, <2>5, <2>6
<1>5. \A e \in hand[w] : Refs(e, naming[e]) \subseteq stored BY <1>2
<1> QED BY <1>2, <1>3, <1>4, <1>5

\* Steps of a normalizing run leave the raw side as it is.
LEMMA PassClosed ==
  ASSUME RefsInv, NEW w \in Worker, at[w] >= 22, \A x \in Worker : x # w => at[x] = 0,
         UNCHANGED <<stored, naming>>, owed \subseteq owed'
  PROVE  Closed'
<1>1. \A x \in Worker : \A e, t : ~Bringing(x, e, t) BY DEF Bringing
<1>2. \A e : InDebt(e) => InDebt(e)' BY DEF InDebt
<1> QED BY <1>1, <1>2 DEF RefsInv, Closed

\* A normalizing run has nothing to bring.
LEMMA PassHeld ==
  ASSUME RunTypes, Held, NEW w \in Worker,
         \A x \in Worker : x # w => at[x] = 0 /\ at'[x] = 0 /\ hand'[x] = hand[x],
         at'[w] \in 22 .. 49 \/ (hand'[w] = {} /\ at'[w] = 0)
  PROVE  Held'
<1>1. ~(at'[w] \in 2 .. 21) /\ (at'[w] < 2 => hand'[w] = {}) OBVIOUS
<1> QED BY <1>1, HeldBy

\* A run begins to normalize: what it had whole is no longer owed.
LEMMA BeginPassRefs ==
  ASSUME EntityTypes, RefsInv, NEW w \in Worker, BeginNormalize(w)
  PROVE  RefsInv'
<1>1. /\ at[w] # 0 /\ Program[at[w]].do = "begin" /\ Program[at[w]].do # "finish" /\ Following(w)
      /\ scope' = [scope EXCEPT ![w] = IF Stranded THEN Entity ELSE fresh]
      /\ newly' = [newly EXCEPT ![w] = {}] /\ hand' = [hand EXCEPT ![w] = {}]
      /\ owed' = owed \ whole[w]
      /\ UNCHANGED <<book, stored, naming, fresh, shown, edge>>
  BY DEF BeginNormalize, At, crmState, rawState, platState
<1> HIDE DEF BeginNormalize
<1>2. /\ RunTypes /\ Held /\ Honest /\ Closed /\ Linked /\ Reading
      /\ stored \subseteq Entity /\ fresh \subseteq stored /\ hand \in [Worker -> SUBSET Entity]
      /\ scope \in [Worker -> SUBSET Entity] /\ newly \in [Worker -> SUBSET Entity]
  BY DEF EntityTypes, RunTypes, RefsInv, RawTypes, Reading
<1>3. /\ at[w] = 21 /\ at'[w] \in 22 .. 23
      /\ \A x \in Worker : x # w => at[x] = 0 /\ at'[x] = 0
  <2>1. at[w] = 21 BY <1>1, <1>2, Stations
  <2>2. at'[w] <= 23 /\ at'[w] \in 1 .. 49 /\ at'[w] > 21
    BY <1>1, <1>2, <2>1, FixedSteps, Advance
  <2> QED BY <1>1, <1>2, <2>1, <2>2, Advance
<1>4. /\ \A e \in hand[w] : e \in fresh /\ e \in stored /\ Refs(e, naming[e]) \subseteq stored
      /\ \A e \in stored : Owner(e) \cap whole[w] # {} => e \in hand[w]
  BY <1>3, AllBrought
<1>5. ASSUME NEW e \in stored, InDebt(e), ~InDebt(e)'
  PROVE e \in fresh /\ Refs(e, naming[e]) \subseteq stored
  <2>1. Owner(e) \cap whole[w] # {} BY <1>1, <1>5 DEF InDebt, Owner
  <2> QED BY <1>4, <2>1
<1>6. Honest' BY <1>1, <1>2 DEF Honest
<1>7. Held'
  <2>1. \A x \in Worker : x # w => at[x] = 0 /\ at'[x] = 0 /\ hand'[x] = hand[x]
    BY <1>1, <1>2, <1>3
  <2>2. at'[w] \in 22 .. 49 \/ (hand'[w] = {} /\ at'[w] = 0) BY <1>3
  <2> QED BY <1>2, <2>1, <2>2, PassHeld
<1>8. Closed'
  <2> SUFFICES ASSUME NEW e \in stored, NEW t \in Refs(e, naming[e]), ~InDebt(e)'
               PROVE  t \in stored
    BY <1>1 DEF Closed
  <2>1. t \in stored \/ InDebt(e) \/ \E x \in Worker : Bringing(x, e, t) BY <1>2 DEF Closed
  <2>2. CASE InDebt(e) BY <1>5, <2>2
  <2>3. ASSUME NEW x \in Worker, Bringing(x, e, t) PROVE t \in stored
    <3>1. x = w BY <1>3, <2>3 DEF Bringing
    <3>2. t \in hand[w] BY <2>3, <3>1 DEF Bringing
    <3> QED BY <1>4, <3>2
  <2> QED BY <2>1, <2>2, <2>3
<1>9. Reading'
  <2>1. newly' \in [Worker -> SUBSET Entity] BY <1>1, <1>2
  <2>2. scope'[w] \in {Entity, fresh} /\ hand'[w] = {} BY <1>1, <1>2
  <2>3. ReadIn(w)'
    <3>1. ~(at'[w] > 23) /\ ~(at'[w] > 36) BY <1>3
    <3> QED BY <1>1, <1>2, <2>2, <3>1 DEF ReadIn
  <2>4. \A x \in Worker : at'[x] > 21 => x = w BY <1>3
  <2> QED BY <2>1, <2>3, <2>4 DEF Reading
<1>10. Linked'
  <2>1. ASSUME NEW n \in 22 .. 46, NEW e \in Entity, Program[n].kind = e[1] PROVE Ahead(n)'
    <3>1. n \in 1 .. 49 /\ at[w] < n BY <1>3
    <3> QED BY <1>1, <1>2, <2>1, <3>1, StillToCome
  <2>2. ASSUME NEW e \in stored
        PROVE  HasRow(e)' /\ \A kind \in RefKinds(e[1]) : HasRefs(e, kind)'
    <3>1. e \in Entity /\ e[1] \in Fetchable BY <1>2 DEF Honest
    <3>2. HasRow(e) /\ \A kind \in RefKinds(e[1]) : HasRefs(e, kind) BY <1>2 DEF Linked
    <3>3. Ahead(RowsAt(e[1]))' BY <2>1, <3>1, RowPasses
    <3>4. HasRow(e)' BY <1>1, <3>2, <3>3 DEF HasRow
    <3>5. ASSUME NEW kind \in RefKinds(e[1]) PROVE HasRefs(e, kind)'
      <4>1. Ahead(LastPass(e[1], kind))' BY <2>1, <3>1, LastPasses
      <4>2. HasRefs(e, kind) BY <3>2
      <4>3. Right(e, kind) => Right(e, kind)' BY <1>1 DEF Right
      <4>4. InDebt(e) => InDebt(e)' \/ e \in fresh BY <1>5
      <4> QED BY <1>1, <4>1, <4>2, <4>3, <4>4 DEF HasRefs
    <3> QED BY <3>4, <3>5
  <2>3. ASSUME NEW e \in stored \ fresh PROVE Shows(e)'
    <3>1. Shows(e) BY <1>2 DEF Linked
    <3>2. InDebt(e) => InDebt(e)' BY <1>5
    <3> QED BY <1>1, <3>1, <3>2 DEF Shows
  <2> QED BY <1>1, <2>2, <2>3 DEF Linked
<1> QED BY <1>6, <1>7, <1>8, <1>9, <1>10 DEF RefsInv

\* Reading changes nothing but what the run has.
LEMMA ReadRefs ==
  ASSUME EntityTypes, RefsInv, NEW w \in Worker, ReadJobs(w) \/ ReadVisits(w)
  PROVE  RefsInv'
<1>1. PICK X : /\ at[w] # 0 /\ Load(w, X)
               /\ \/ Program[at[w]].do = "read" /\ X = OfKind(stored, {"job", "contact"})
                  \/ Program[at[w]].do = "reread" /\ X = OfKind(stored, {"visit"}) \cap Above(w)
  BY DEF ReadJobs, ReadVisits, At
<1>2. /\ hand' = [hand EXCEPT ![w] = @ \cup X]
      /\ view' = [view EXCEPT ![w] = [e \in Entity |-> IF e \in X THEN naming[e] ELSE @[e]]]
      /\ newly' = [newly EXCEPT ![w] = @ \cup (X \cap Above(w))] /\ Following(w)
      /\ Program[at[w]].do # "finish"
      /\ UNCHANGED <<book, stored, naming, fresh, shown, edge, owed, scope>>
  BY <1>1 DEF Load, crmState, rawState, platState
<1> HIDE DEF ReadJobs, ReadVisits
<1>3. /\ RunTypes /\ Held /\ Honest /\ Closed /\ Linked /\ Reading
      /\ stored \subseteq Entity /\ fresh \subseteq stored /\ hand \in [Worker -> SUBSET Entity]
      /\ view \in [Worker -> [Entity -> SUBSET Entity]] /\ late \in [Worker -> SUBSET Entity]
      /\ scope \in [Worker -> SUBSET Entity] /\ newly \in [Worker -> SUBSET Entity]
  BY DEF EntityTypes, RunTypes, RefsInv, RawTypes, Reading
<1>4. /\ \/ at[w] = 23 /\ X = OfKind(stored, {"job", "contact"})
         \/ at[w] = 36 /\ X = OfKind(stored, {"visit"}) \cap Above(w)
      /\ at'[w] \in 23 .. 49 /\ at'[w] > at[w]
      /\ at[w] = 23 => at'[w] <= 36
      /\ \A x \in Worker : x # w => at[x] = 0 /\ at'[x] = 0
  <2>1. \/ at[w] = 23 /\ X = OfKind(stored, {"job", "contact"})
        \/ at[w] = 36 /\ X = OfKind(stored, {"visit"}) \cap Above(w)
    BY <1>1, <1>3, Stations
  <2>2. /\ at'[w] \in 1 .. 49 /\ at'[w] > at[w]
        /\ at[w] = 23 => at'[w] <= 36
        /\ \A x \in Worker : x # w => at[x] = 0 /\ at'[x] = 0
    BY <1>1, <1>2, <1>3, <2>1, FixedSteps, Advance
  <2> QED BY <2>1, <2>2
<1>5. X \subseteq stored BY <1>4 DEF OfKind
<1>6. /\ hand'[w] = hand[w] \cup X /\ newly'[w] = newly[w] \cup (X \cap Above(w))
      /\ \A e \in Entity : view'[w][e] = IF e \in X THEN naming[e] ELSE view[w][e]
      /\ \A x \in Worker : x # w => hand'[x] = hand[x]
  BY <1>2, <1>3
<1>7. ReadIn(w) BY <1>3, <1>4 DEF Reading
<1>8. Honest' BY <1>2, <1>3 DEF Honest
<1>9. Held'
  <2>1. \A x \in Worker : x # w => at[x] = 0 /\ at'[x] = 0 /\ hand'[x] = hand[x]
    BY <1>4, <1>6
  <2>2. at'[w] \in 22 .. 49 \/ (hand'[w] = {} /\ at'[w] = 0) BY <1>4
  <2> QED BY <1>3, <2>1, <2>2, PassHeld
<1>10. Closed'
  <2>1. at[w] >= 22 BY <1>4
  <2> QED BY <1>2, <1>4, <2>1, PassClosed
<1>11. Reading'
  <2>1. X \cap Above(w) \subseteq Entity BY <1>3, <1>5
  <2>2. newly' \in [Worker -> SUBSET Entity] BY <1>2, <1>3, <2>1
  <2>3. fresh' \subseteq scope'[w] /\ hand'[w] \subseteq stored'
    BY <1>2, <1>5, <1>6, <1>7 DEF ReadIn
  <2>4. \A e \in hand'[w] : view'[w][e] = naming'[e]
    BY <1>2, <1>3, <1>5, <1>6, <1>7 DEF ReadIn
  <2>5. fresh \subseteq Above(w) BY <1>7 DEF ReadIn, Above
  <2>6. at'[w] > 23 => OfKind(fresh, {"job", "contact"}) \subseteq newly'[w] \cap hand'[w]
    <3>1. CASE at[w] = 23
      <4>1. X = OfKind(stored, {"job", "contact"}) BY <1>4, <3>1
      <4>2. OfKind(fresh, {"job", "contact"}) \subseteq X \cap Above(w)
        BY <1>3, <2>5, <4>1 DEF OfKind
      <4> QED BY <1>6, <4>2
    <3>2. CASE at[w] = 36 BY <1>6, <1>7, <3>2 DEF ReadIn
    <3> QED BY <1>4, <3>1, <3>2
  <2>7. at'[w] > 36 => OfKind(fresh, {"visit"}) \subseteq newly'[w] \cap hand'[w]
    <3>1. CASE at[w] = 23 BY <1>4, <3>1
    <3>2. CASE at[w] = 36
      <4>1. X = OfKind(stored, {"visit"}) \cap Above(w) BY <1>4, <3>2
      <4>2. OfKind(fresh, {"visit"}) \subseteq X \cap Above(w) BY <1>3, <2>5, <4>1 DEF OfKind
      <4> QED BY <1>6, <4>2
    <3> QED BY <1>4, <3>1, <3>2
  <2>8. ReadIn(w)' BY <1>2, <2>3, <2>4, <2>6, <2>7 DEF ReadIn
  <2>9. \A x \in Worker : at'[x] > 21 => x = w BY <1>4
  <2> QED BY <2>2, <2>8, <2>9 DEF Reading
<1>12. Linked'
  <2>1. ASSUME NEW e \in Entity, NEW n \in 22 .. 46, Program[n].kind = e[1], Program[n].do \in {"rows", "links"},
               Ahead(n)
        PROVE  Ahead(n)'
    <3>1. n \in 1 .. 49 /\ at[w] <= n /\ at[w] # n BY <1>1, <2>1 DEF Ahead
    <3>2. at[w] < n BY <1>4, <3>1
    <3> QED BY <1>1, <1>2, <1>3, <2>1, <3>1, <3>2, StillToCome
  <2>2. ASSUME NEW e \in stored
        PROVE  HasRow(e)' /\ \A kind \in RefKinds(e[1]) : HasRefs(e, kind)'
    <3>1. e \in Entity /\ e[1] \in Fetchable BY <1>3 DEF Honest
    <3>2. HasRow(e) /\ \A kind \in RefKinds(e[1]) : HasRefs(e, kind) BY <1>3 DEF Linked
    <3>3. Ahead(RowsAt(e[1])) => Ahead(RowsAt(e[1]))' BY <2>1, <3>1, RowPasses
    <3>4. HasRow(e)' BY <1>2, <3>2, <3>3 DEF HasRow
    <3>5. ASSUME NEW kind \in RefKinds(e[1]) PROVE HasRefs(e, kind)'
      <4>1. Ahead(LastPass(e[1], kind)) => Ahead(LastPass(e[1], kind))' BY <2>1, <3>1, LastPasses
      <4>2. HasRefs(e, kind) BY <3>2
      <4>3. Right(e, kind) => Right(e, kind)' BY <1>2 DEF Right
      <4> QED BY <1>2, <4>1, <4>2, <4>3 DEF HasRefs, InDebt
    <3> QED BY <3>4, <3>5
  <2>3. ASSUME NEW e \in stored \ fresh PROVE Shows(e)'
    BY <1>2, <1>3 DEF Linked, Shows, InDebt
  <2> QED BY <1>2, <2>2, <2>3 DEF Linked
<1> QED BY <1>8, <1>9, <1>10, <1>11, <1>12 DEF RefsInv

\* At its end, and when it dies, a run leaves everything.
LEMMA EndRefs ==
  ASSUME EntityTypes, RefsInv, NEW w \in Worker, FinishNormalize(w) \/ RunDies(w)
  PROVE  RefsInv'
<1>1. /\ at[w] # 0 /\ Rest(w) /\ UNCHANGED <<book, stored, naming, shown, edge>>
      /\ \/ Program[at[w]].do = "finish" /\ fresh' = late[w] /\ owed' = owed
         \/ fresh' = fresh /\ owed' = IF Normalizes(w) THEN owed ELSE owed \cup task[w]
  <2>1. CASE FinishNormalize(w) BY <2>1 DEF FinishNormalize, At, crmState, platState
  <2>2. CASE RunDies(w) BY <2>2 DEF RunDies, crmState, rawState, platState
  <2> QED BY <2>1, <2>2
<1> HIDE DEF FinishNormalize, RunDies
<1>2. /\ RunTypes /\ RunOK(w) /\ Held /\ Honest /\ Closed /\ Linked /\ Reading
      /\ stored \subseteq Entity /\ fresh \subseteq stored /\ hand \in [Worker -> SUBSET Entity]
      /\ newly \in [Worker -> SUBSET Entity] /\ at \in [Worker -> Nat]
  BY DEF EntityTypes, RunTypes, RefsInv, RawTypes, Reading
<1>3. /\ at[w] \in 1 .. 49 /\ \A x \in Worker : x # w => at[x] = 0
      /\ Normalizes(w) <=> at[w] > 21
      /\ Program[at[w]].do = "finish" => at[w] = 49
  BY <1>1, <1>2, RunAt, Numbers, Stations
<1>4. /\ \A x \in Worker : at'[x] = 0 /\ hand'[w] = {} /\ newly' \in [Worker -> SUBSET Entity]
      /\ \A x \in Worker : x # w => hand'[x] = hand[x]
  BY <1>1, <1>2, <1>3 DEF Rest
<1>5. late[w] = {} BY <1>2 DEF RunOK
<1>6. owed \subseteq owed' /\ (at[w] <= 21 => owed' = owed \cup task[w] /\ fresh' = fresh)
  BY <1>1, <1>3
<1>7. \A e : InDebt(e) => InDebt(e)' BY <1>6 DEF InDebt, Owner
<1>8. Honest' BY <1>1, <1>2 DEF Honest
<1>9. Held'
  <2>1. hand'[w] = {} /\ at'[w] = 0 BY <1>4
  <2> QED BY <1>2, <1>3, <1>4, <2>1, PassHeld
<1>10. Closed'
  <2> SUFFICES ASSUME NEW e \in stored, NEW t \in Refs(e, naming[e])
               PROVE  t \in stored \/ InDebt(e)'
    BY <1>1 DEF Closed
  <2>1. t \in stored \/ InDebt(e) \/ \E x \in Worker : Bringing(x, e, t) BY <1>2 DEF Closed
  <2>2. ASSUME NEW x \in Worker, Bringing(x, e, t) PROVE InDebt(e)'
    <3>1. x = w BY <1>3, <2>2 DEF Bringing
    <3>2. at[w] <= 21 /\ Owner(e) \cap task[w] # {} BY <2>2, <3>1 DEF Bringing
    <3> QED BY <1>6, <3>2 DEF InDebt, Owner
  <2> QED BY <1>7, <2>1, <2>2
<1>11. Reading' BY <1>4 DEF Reading
<1>12. Linked'
  <2>1. ASSUME NEW e \in stored
    PROVE e[1] \in Fetchable /\ HasRow(e) /\ \A kind \in RefKinds(e[1]) : HasRefs(e, kind)
    BY <1>2 DEF Linked, Honest
  <2>2. \A n \in 21 .. 49 : Ahead(n)' BY <1>4 DEF Ahead
  <2>3. ASSUME NEW e \in stored
        PROVE  /\ RowsAt(e[1]) \in 22 .. 46
               /\ \A kind \in RefKinds(e[1]) : LastPass(e[1], kind) \in 22 .. 46
    BY <2>1, RowPasses, LastPasses
  <2>4. CASE fresh' = fresh
    <3>1. ASSUME NEW e \in stored
          PROVE  HasRow(e)' /\ \A kind \in RefKinds(e[1]) : HasRefs(e, kind)'
      <4>1. HasRow(e)' BY <1>1, <2>1, <2>2, <2>3, <2>4 DEF HasRow
      <4>2. ASSUME NEW kind \in RefKinds(e[1]) PROVE HasRefs(e, kind)'
        <5>1. HasRefs(e, kind) /\ Ahead(LastPass(e[1], kind))' BY <2>1, <2>2, <2>3
        <5>2. Right(e, kind) => Right(e, kind)' BY <1>1 DEF Right
        <5> QED BY <1>7, <2>4, <5>1, <5>2 DEF HasRefs
      <4> QED BY <4>1, <4>2
    <3>2. \A e \in stored \ fresh : Shows(e)' BY <1>1, <1>2, <1>7 DEF Linked, Shows
    <3> QED BY <1>1, <2>4, <3>1, <3>2 DEF Linked
  <2>5. CASE fresh' # fresh
    <3>1. at[w] = 49 BY <1>1, <1>3, <2>5
    <3>2. \A n \in 22 .. 46 : ~Ahead(n) BY <3>1 DEF Ahead
    <3>3. \A e \in stored : e \in shown BY <2>1, <2>3, <3>2 DEF HasRow
    <3>4. ASSUME NEW e \in stored, NEW kind \in RefKinds(e[1]) PROVE HasRefs(e, kind)'
      <4>1. HasRefs(e, kind) /\ ~Ahead(LastPass(e[1], kind)) BY <2>1, <2>3, <3>2
      <4>2. Right(e, kind) => Right(e, kind)' BY <1>1 DEF Right
      <4> QED BY <1>7, <4>1, <4>2 DEF HasRefs
    <3>5. \A e \in stored : HasRow(e)' BY <1>1, <3>3 DEF HasRow
    <3>6. \A e \in stored : Shows(e)' BY <1>1, <3>3 DEF Shows, OfKind
    <3> QED BY <1>1, <3>4, <3>5, <3>6 DEF Linked
  <2> QED BY <2>4, <2>5
<1> QED BY <1>8, <1>9, <1>10, <1>11, <1>12 DEF RefsInv

\* A contact with an address of its own is merged into no other.
LEMMA CanonSelf ==
  ASSUME OwnInboxes, stored \subseteq Entity, NEW w \in Worker, hand[w] \in SUBSET Entity,
         NEW e \in Entity
  PROVE  Canon(w, e) = e
<1>1. CASE e \in OfKind(hand[w], {"contact"})
  <2>1. e[1] = "contact" /\ OfKind(hand[w], {"contact"}) = OfKind(hand[w], {"contact"}) \cup {e}
    BY <1>1 DEF OfKind
  <2>2. Survivor(OfKind(hand[w], {"contact"}), e) = e BY <2>1, NobodyMerges
  <2> QED BY <1>1, <2>2 DEF Canon
<1>2. CASE e \notin OfKind(hand[w], {"contact"}) BY <1>2 DEF Canon
<1> QED BY <1>1, <1>2

\* The rows of a pass: stored ones, all that are above the watermark, with the
\* references of their payload.
LEMMA RowsRead ==
  ASSUME EntityTypes, RefsInv, OwnInboxes, NEW w \in Worker, at[w] \in 22 .. 48, NEW i,
         i = Program[at[w]], i.do \in {"rows", "links"}
  PROVE  /\ RowsOf(w, i) \subseteq OfKind(stored, {i.kind})
         /\ OfKind(fresh, {i.kind}) \subseteq RowsOf(w, i)
         /\ \A e \in RowsOf(w, i) : /\ Canon(w, e) = e
                                    /\ Payload(w, i, e) = OfKind(naming[e], i.to)
                                    /\ Resolved(w, i, e) = OfKind(naming[e], i.to) \cap shown
<1>1. /\ stored \subseteq Entity /\ fresh \subseteq stored /\ hand[w] \in SUBSET Entity
      /\ naming \in [Entity -> SUBSET Entity]
  BY DEF EntityTypes, RawTypes, RunTypes
<1>2. ReadIn(w) BY DEF RefsInv, Reading
<1>3. /\ fresh \subseteq scope[w] /\ hand[w] \subseteq stored
      /\ \A e \in hand[w] : view[w][e] = naming[e]
  BY <1>2 DEF ReadIn
<1>4. OfKind(IF Buffered(i) THEN hand[w] ELSE stored, {i.kind}) \subseteq OfKind(stored, {i.kind})
  BY <1>3 DEF OfKind
<1>5. RowsOf(w, i) \subseteq OfKind(IF Buffered(i) THEN hand[w] ELSE stored, {i.kind})
  BY DEF RowsOf
<1>6. OfKind(fresh, {i.kind}) \subseteq RowsOf(w, i)
  <2>1. CASE ~Buffered(i)
    <3>1. OfKind(fresh, {i.kind}) \subseteq OfKind(stored, {i.kind}) \cap Above(w)
      BY <1>1, <1>3 DEF OfKind, Above
    <3> QED BY <2>1, <3>1 DEF RowsOf
  <2>2. CASE Buffered(i)
    <3>1. /\ i.kind \in {"job", "contact", "visit"}
          /\ i.kind = "visit" => at[w] > 36
          /\ i.kind \in {"job", "contact"} => at[w] > 23
      BY <2>2, PassesAt DEF Buffered
    <3>2. OfKind(fresh, {i.kind}) \subseteq newly[w] \cap hand[w]
      BY <1>2, <3>1 DEF ReadIn, OfKind
    <3>3. OfKind(fresh, {i.kind}) \subseteq OfKind(hand[w], {i.kind}) \cap newly[w]
      BY <3>2 DEF OfKind
    <3> QED BY <2>2, <3>3 DEF RowsOf
  <2> QED BY <2>1, <2>2
<1>7. ASSUME NEW e \in RowsOf(w, i)
      PROVE  /\ Canon(w, e) = e /\ Payload(w, i, e) = OfKind(naming[e], i.to)
             /\ Resolved(w, i, e) = OfKind(naming[e], i.to) \cap shown
  <2>1. e \in stored /\ e \in Entity /\ (Buffered(i) => e \in hand[w])
    BY <1>1, <1>4, <1>5 DEF OfKind
  <2>2. Canon(w, e) = e BY <1>1, <2>1, CanonSelf
  <2>3. Payload(w, i, e) = OfKind(naming[e], i.to) BY <1>3, <2>1 DEF Payload
  <2>4. OfKind(naming[e], i.to) \subseteq Entity BY <1>1, <2>1 DEF OfKind
  <2>5. \A t \in OfKind(naming[e], i.to) : Canon(w, t) = t BY <1>1, <2>4, CanonSelf
  <2>6. {Canon(w, t) : t \in OfKind(naming[e], i.to)} = OfKind(naming[e], i.to) BY <2>5
  <2> QED BY <2>2, <2>3, <2>6 DEF Resolved
<1>8. RowsOf(w, i) \subseteq OfKind(stored, {i.kind}) BY <1>4, <1>5
<1> QED BY <1>6, <1>7, <1>8

\* A pass writes the rows R and the references of the kinds it is about.
Repoints(w, i, R) ==
  /\ i.do \in {"rows", "links"} /\ Following(w)
  /\ UNCHANGED <<book, stored, naming, fresh, owed, hand, view, scope, newly>>
  /\ R \subseteq OfKind(stored, {i.kind}) /\ shown' = shown \cup R
  /\ \A e \in stored : \A kind \in RefKinds(e[1]) : \A t \in OfKind(Entity, {kind}) :
       <<e, t>> \in edge' <=> IF e \in R /\ kind \in i.to THEN t \in naming[e] \cap shown
                             ELSE <<e, t>> \in edge
  /\ i.filtered \/ i.do = "rows" => OfKind(fresh, {i.kind}) \subseteq R


\* A pass that writes the rows R of a kind, and overwrites their references to
\* the kinds it resolves.
\* Such a pass keeps the invariant.
LEMMA PassKeeps ==
  ASSUME EntityTypes, RefsInv, NEW w \in Worker, at[w] \in 22 .. 48, NEW i, i = Program[at[w]],
         NEW R, Repoints(w, i, R)
  PROVE  RefsInv'
<1> USE DEF Repoints
<1>1. /\ RunTypes /\ Held /\ Honest /\ Closed /\ Linked /\ Reading /\ stored \subseteq Entity
  BY DEF EntityTypes, RunTypes, RefsInv, RawTypes
<1>2. /\ at[w] # 0 /\ Program[at[w]].do # "finish"
      /\ at'[w] \in 23 .. 49 /\ at'[w] > at[w]
      /\ \A x \in Worker : x # w => at[x] = 0 /\ at'[x] = 0
      /\ at[w] <= 22 => at'[w] <= 23
      /\ at[w] <= 35 => at'[w] <= 36
  BY <1>1, Advance, FixedSteps
<1>3. at[w] # 23 /\ at[w] # 36 BY PassesAt
<1>4. Honest' BY <1>1 DEF Honest
<1>5. Held'
  <2>1. at'[w] \in 22 .. 49 BY <1>2
  <2>2. \A x \in Worker : x # w => at[x] = 0 /\ at'[x] = 0 /\ hand'[x] = hand[x] BY <1>2
  <2> QED BY <1>1, <2>1, <2>2, PassHeld
<1>6. Closed'
  <2>1. at[w] >= 22 /\ \A x \in Worker : x # w => at[x] = 0 BY <1>2
  <2> QED BY <2>1, PassClosed
<1>7. Reading'
  <2>1. ReadIn(w) BY <1>1 DEF Reading
  <2>2. (at'[w] > 23 => at[w] > 23) /\ (at'[w] > 36 => at[w] > 36) BY <1>2, <1>3
  <2>3. ReadIn(w)' BY <2>1, <2>2 DEF ReadIn
  <2>4. \A x \in Worker : at'[x] > 21 => x = w BY <1>2
  <2> QED BY <1>1, <2>3, <2>4 DEF Reading
<1>8. ASSUME NEW e \in Entity, NEW n \in 22 .. 46, Program[n].kind = e[1], at[w] < n PROVE Ahead(n)'
  <2>1. n \in 1 .. 49 OBVIOUS
  <2> QED BY <1>1, <1>2, <1>8, <2>1, StillToCome
<1>9. \A n \in 22 .. 46 : Ahead(n) => at[w] <= n BY DEF Ahead
<1>10. ASSUME NEW e \in stored PROVE HasRow(e)'
  <2>1. e \in Entity /\ e[1] \in Fetchable /\ HasRow(e) BY <1>1 DEF Honest, Linked
  <2>2. CASE e \in shown BY <2>2 DEF HasRow
  <2>3. CASE e \in fresh /\ Ahead(RowsAt(e[1]))
    <3>1. /\ RowsAt(e[1]) \in 22 .. 46 /\ Program[RowsAt(e[1])].kind = e[1]
          /\ Program[RowsAt(e[1])].do = "rows"
      BY <2>1, RowPasses
    <3>2. at[w] <= RowsAt(e[1]) BY <1>9, <2>3, <3>1
    <3>3. CASE at[w] = RowsAt(e[1])
      <4>1. i.kind = e[1] /\ i.do = "rows" BY <3>1, <3>3
      <4>2. e \in OfKind(fresh, {i.kind}) BY <2>3, <4>1 DEF OfKind
      <4> QED BY <4>1, <4>2 DEF HasRow
    <3>4. CASE at[w] # RowsAt(e[1])
      <4>1. at[w] < RowsAt(e[1]) BY <3>1, <3>2, <3>4
      <4> QED BY <1>8, <2>1, <2>3, <3>1, <4>1 DEF HasRow
    <3> QED BY <3>3, <3>4
  <2> QED BY <2>1, <2>2, <2>3 DEF HasRow
<1>11. ASSUME NEW e \in stored, NEW kind \in RefKinds(e[1]) PROVE HasRefs(e, kind)'
  <2> DEFINE n == LastPass(e[1], kind)
  <2>1. e \in Entity /\ e[1] \in Fetchable /\ HasRefs(e, kind) /\ (e \notin fresh => Shows(e))
    BY <1>1 DEF Honest, Linked
  <2>2. /\ n \in 22 .. 46 /\ Program[n].kind = e[1] /\ Program[n].filtered /\ kind \in Program[n].to
        /\ kind # "contract" => RowsAt(kind) < n
    BY <2>1, LastPasses
  <2> HIDE DEF n
  <2>3. InDebt(e)' <=> InDebt(e) BY DEF InDebt
  <2>4. CASE InDebt(e) BY <2>3, <2>4 DEF HasRefs
  <2>5. CASE e \in R /\ kind \in i.to
    <3>1. i.kind = e[1] BY <2>5 DEF OfKind
    <3>2. i.filtered BY <2>5, <3>1, PassesAt
    <3>3. i.kind \notin i.to BY <3>2, PassesAt
    <3>4. ASSUME NEW t \in OfKind(Entity, {kind}) PROVE t \in shown' <=> t \in shown
      <4>1. t[1] = kind BY DEF OfKind
      <4>2. t \notin R BY <2>5, <3>3, <4>1 DEF OfKind
      <4> QED BY <4>2
    <3>5. Right(e, kind)' BY <2>5, <3>4 DEF Right
    <3> QED BY <3>5 DEF HasRefs
  <2>6. CASE ~(e \in R /\ kind \in i.to) /\ e \in fresh /\ Ahead(n)
    <3>1. at[w] <= n BY <1>9, <2>2, <2>6
    <3>2. at[w] # n
      <4>1. SUFFICES ASSUME at[w] = n PROVE FALSE OBVIOUS
      <4>2. i.filtered /\ kind \in i.to /\ e \in OfKind(fresh, {i.kind})
        BY <2>2, <2>6, <4>1 DEF OfKind
      <4> QED BY <2>6, <4>2
    <3>3. at[w] < n BY <2>2, <3>1, <3>2
    <3> QED BY <1>8, <2>1, <2>2, <2>6, <3>3 DEF HasRefs, n
  <2>7. CASE ~(e \in R /\ kind \in i.to) /\ ~InDebt(e) /\ Right(e, kind)
    <3>1. CASE \A t \in OfKind(Entity, {kind}) : t \in naming[e] \cap R => t \in shown
      <4>1. Right(e, kind)' BY <2>7, <3>1 DEF Right
      <4> QED BY <4>1 DEF HasRefs
    <3>2. ASSUME NEW t \in OfKind(Entity, {kind}), t \in naming[e] \cap R, t \notin shown
          PROVE  HasRefs(e, kind)'
      <4>1. t \in stored /\ t[1] = kind BY <3>2 DEF OfKind
      <4>2. e \in fresh
        <5>1. t \in OfKind(naming[e] \cap stored, RefKinds(e[1])) BY <3>2, <4>1 DEF OfKind
        <5> QED BY <2>1, <2>7, <3>2, <5>1 DEF Shows
      <4>3. kind \in Fetchable /\ HasRow(t) BY <1>1, <4>1 DEF Honest, Linked
      <4>4. Ahead(RowsAt(kind)) BY <3>2, <4>1, <4>3 DEF HasRow
      <4>5. RowsAt(kind) \in 22 .. 46 /\ kind # "contract" BY <4>3, RowPasses DEF Fetchable
      <4>6. at[w] <= RowsAt(kind) BY <1>9, <4>4, <4>5
      <4>7. at[w] < n BY <2>2, <4>5, <4>6
      <4> QED BY <1>8, <2>1, <2>2, <4>2, <4>7 DEF HasRefs, n
    <3> QED BY <3>1, <3>2
  <2> QED BY <2>1, <2>4, <2>5, <2>6, <2>7 DEF HasRefs, n
<1>12. ASSUME NEW e \in stored \ fresh PROVE Shows(e)'
  <2>1. Shows(e) BY <1>1 DEF Linked
  <2> QED BY <2>1 DEF Shows, InDebt
<1>13. Linked' BY <1>10, <1>11, <1>12 DEF Linked
<1> QED BY <1>4, <1>5, <1>6, <1>7, <1>13 DEF RefsInv

\* A pass writes platform rows and their foreign keys.
LEMMA RowPassRefs ==
  ASSUME EntityTypes, RefsInv, OwnInboxes, WellBooked, NEW w \in Worker, WriteRows(w)
  PROVE  RefsInv'
<1>1. PICK i : i = Program[at[w]] OBVIOUS
<1> DEFINE R == {e \in RowsOf(w, i) : /\ Canon(w, e) = e
                                      /\ i.kind = "comment" => Resolved(w, i, e) # {}}
           D == {c \in OfKind(hand[w], {"contact"}) : i.kind = "contact" /\ Canon(w, c) # c}
<1>2. /\ at[w] # 0 /\ i.do = "rows" /\ Following(w) /\ shown' = (shown \cup R) \ D
      /\ edge' = {x \in edge : /\ x[1] \notin D /\ x[2] \notin D
                               /\ ~(x[1] \in R /\ x[2][1] \in i.to)}
                 \cup UNION {{<<e, t>> : t \in Resolved(w, i, e)} : e \in R}
      /\ UNCHANGED <<book, stored, naming, fresh, owed, hand, view, scope, newly>>
  BY <1>1 DEF WriteRows, At, crmState, rawState
<1> HIDE DEF WriteRows
<1>3. /\ RunTypes /\ Honest /\ Linked /\ stored \subseteq Entity /\ fresh \subseteq stored
      /\ hand[w] \in SUBSET Entity /\ naming \in [Entity -> SUBSET Entity]
  BY DEF EntityTypes, RunTypes, RefsInv, RawTypes
<1>4. at[w] \in 22 .. 48 BY <1>1, <1>2, <1>3, Stations
<1>5. /\ RowsOf(w, i) \subseteq OfKind(stored, {i.kind})
      /\ OfKind(fresh, {i.kind}) \subseteq RowsOf(w, i)
      /\ \A e \in RowsOf(w, i) : /\ Canon(w, e) = e
                                 /\ Resolved(w, i, e) = OfKind(naming[e], i.to) \cap shown
  BY <1>1, <1>2, <1>4, RowsRead
<1>6. D = {} BY <1>3, CanonSelf DEF OfKind
<1>7. R \subseteq OfKind(stored, {i.kind}) BY <1>5
<1>8. OfKind(fresh, {i.kind}) \subseteq R
  <2> SUFFICES ASSUME NEW e \in OfKind(fresh, {i.kind}), i.kind = "comment"
               PROVE  OfKind(naming[e], i.to) \cap shown # {}
    BY <1>5
  <2>1. e \in stored /\ e \in Entity /\ e[1] = "comment" BY <1>3 DEF OfKind
  <2>2. PICK j \in AllJobs : JobsOf(e) = {j} BY <2>1 DEF WellBooked, AllJobs, OfKind
  <2>3. j \in stored /\ j \in naming[e] /\ j[1] = "job"
    BY <1>3, <2>1, <2>2 DEF Honest, AllJobs, OfKind
  <2>4. at[w] = 42
    <3>1. i.kind # "contract" /\ i.kind # "job" BY <2>1
    <3>2. at[w] = RowsAt(i.kind) BY <1>1, <1>2, <1>4, <3>1, PassesAt
    <3> QED BY <3>2, RowTable
  <2>5. "job" \in i.to
    <3>1. "job" \in RefKinds("comment") /\ "comment" \in Fetchable BY RefTable DEF Fetchable
    <3>2. LastPass("comment", "job") = 42 BY LastTable
    <3> QED BY <1>1, <2>4, <3>1, <3>2, LastPasses
  <2>6. j \in shown
    <3>1. HasRow(j) /\ RowsAt(j[1]) = 35 BY <1>3, <2>3, RowTable DEF Linked
    <3>2. ~Ahead(35) BY <2>4 DEF Ahead
    <3> QED BY <3>1, <3>2 DEF HasRow
  <2> QED BY <2>3, <2>5, <2>6 DEF OfKind
<1>9. ASSUME NEW e \in stored, NEW kind \in RefKinds(e[1]), NEW t \in OfKind(Entity, {kind})
      PROVE  <<e, t>> \in edge' <=> IF e \in R /\ kind \in i.to THEN t \in naming[e] \cap shown
                                    ELSE <<e, t>> \in edge
  <2>1. t[1] = kind BY DEF OfKind
  <2>2. \A f \in R : Resolved(w, i, f) = OfKind(naming[f], i.to) \cap shown BY <1>5
  <2>3. <<e, t>> \in UNION {{<<f, u>> : u \in Resolved(w, i, f)} : f \in R}
          <=> e \in R /\ t \in Resolved(w, i, e)
    OBVIOUS
  <2>4. <<e, t>> \in edge' <=> \/ <<e, t>> \in edge /\ ~(e \in R /\ kind \in i.to)
                               \/ e \in R /\ t \in Resolved(w, i, e)
    <3> HIDE DEF R, D
    <3> QED BY <1>2, <1>6, <2>1, <2>3
  <2> HIDE DEF R
  <2>5. e \in R => (t \in Resolved(w, i, e) <=> kind \in i.to /\ t \in naming[e] \cap shown)
    BY <2>1, <2>2 DEF OfKind
  <2> QED BY <2>4, <2>5
<1>10. shown' = shown \cup R BY <1>2, <1>6
<1>11. i.do \in {"rows", "links"} BY <1>2
<1>12. /\ Following(w)
       /\ UNCHANGED <<book, stored, naming, fresh, owed, hand, view, scope, newly>>
  BY <1>2
<1> HIDE DEF R, D
<1>13. Repoints(w, i, R)
  BY <1>7, <1>8, <1>9, <1>10, <1>11, <1>12 DEF Repoints
<1> QED BY <1>1, <1>4, <1>13, PassKeeps

\* A pass writes links.
LEMMA LinkPassRefs ==
  ASSUME EntityTypes, RefsInv, OwnInboxes, NEW w \in Worker, WriteLinks(w)
  PROVE  RefsInv'
<1>1. PICK i : i = Program[at[w]] OBVIOUS
<1> DEFINE S == RowsOf(w, i)
           P == UNION {{<<Canon(w, e), t>> : t \in Resolved(w, i, e)} : e \in S}
<1>2. /\ at[w] # 0 /\ i.do = "links" /\ Following(w)
      /\ edge' = {x \in edge : ~(x[1] \in Parents(w, i) /\ x[2][1] \in i.to)}
                 \cup {x \in P : x[1] \in shown}
      /\ UNCHANGED <<book, stored, naming, fresh, shown, owed, hand, view, scope, newly>>
  BY <1>1 DEF WriteLinks, At, crmState, rawState
<1> HIDE DEF WriteLinks
<1>3. /\ RunTypes /\ Honest /\ Linked /\ stored \subseteq Entity /\ fresh \subseteq stored
      /\ hand[w] \in SUBSET Entity /\ naming \in [Entity -> SUBSET Entity]
  BY DEF EntityTypes, RunTypes, RefsInv, RawTypes
<1>4. at[w] \in 22 .. 48 BY <1>1, <1>2, <1>3, Stations
<1>5. /\ S \subseteq OfKind(stored, {i.kind}) /\ OfKind(fresh, {i.kind}) \subseteq S
      /\ \A e \in S : /\ Canon(w, e) = e
                      /\ Resolved(w, i, e) = OfKind(naming[e], i.to) \cap shown
  BY <1>1, <1>2, <1>4, RowsRead
<1>6. \A e : e \in Parents(w, i) <=> /\ e \in S /\ e \in shown
                                     /\ i.kind = "contact" => Payload(w, i, e) # {}
  BY <1>5 DEF Parents
<1> HIDE DEF S
<1>7. ASSUME NEW e, NEW t
      PROVE  <<e, t>> \in P <=> e \in S /\ t \in OfKind(naming[e], i.to) /\ t \in shown
  BY <1>5
<1> HIDE DEF P
<1>8. ASSUME NEW e \in stored, NEW kind \in RefKinds(e[1]), NEW t \in OfKind(Entity, {kind})
      PROVE  <<e, t>> \in edge' <=>
               \/ <<e, t>> \in edge /\ ~(e \in Parents(w, i) /\ kind \in i.to)
               \/ e \in S /\ kind \in i.to /\ t \in naming[e] \cap shown /\ e \in shown
  <2>1. t[1] = kind BY DEF OfKind
  <2>2. t \in OfKind(naming[e], i.to) <=> t \in naming[e] /\ kind \in i.to BY <2>1 DEF OfKind
  <2>3. <<e, t>> \in P <=> e \in S /\ t \in OfKind(naming[e], i.to) /\ t \in shown BY <1>7
  <2>4. <<e, t>> \in edge' <=> \/ <<e, t>> \in edge /\ ~(e \in Parents(w, i) /\ kind \in i.to)
                               \/ <<e, t>> \in P /\ e \in shown
    BY <1>2, <2>1
  <2> QED BY <2>2, <2>3, <2>4
<1>9. CASE ~i.filtered
  <2> DEFINE N == {}
  <2>1. i.to \cap RefKinds(i.kind) = {} BY <1>1, <1>2, <1>4, <1>9, PassesAt
  <2>2. ASSUME NEW e \in stored, NEW kind \in RefKinds(e[1]), NEW t \in OfKind(Entity, {kind})
        PROVE  <<e, t>> \in edge' <=> IF e \in N /\ kind \in i.to THEN t \in naming[e] \cap shown
                                      ELSE <<e, t>> \in edge
    <3>1. e \in S => e[1] = i.kind BY <1>5 DEF OfKind
    <3>2. e \in S => kind \notin i.to BY <2>1, <3>1
    <3> QED BY <1>6, <1>8, <3>2
  <2>3. N \subseteq OfKind(stored, {i.kind}) /\ shown' = shown \cup N BY <1>2
  <2>4. /\ i.do \in {"rows", "links"}
        /\ i.filtered \/ i.do = "rows" => OfKind(fresh, {i.kind}) \subseteq N
    BY <1>2, <1>9
  <2>5. /\ Following(w)
        /\ UNCHANGED <<book, stored, naming, fresh, owed, hand, view, scope, newly>>
    BY <1>2
  <2> HIDE DEF N
  <2>6. Repoints(w, i, N) BY <2>2, <2>3, <2>4, <2>5 DEF Repoints
  <2> QED BY <1>1, <1>4, <2>6, PassKeeps
<1>10. CASE i.filtered
  <2>1. i.kind = "visit" /\ at[w] > 37 BY <1>1, <1>2, <1>4, <1>10, PassesAt
  <2>2. S \subseteq shown
    <3>1. ASSUME NEW e \in S PROVE e \in shown
      <4>1. e \in stored /\ e[1] = "visit" BY <1>5, <2>1 DEF OfKind
      <4>2. HasRow(e) /\ RowsAt(e[1]) = 37 BY <1>3, <4>1, RowTable DEF Linked
      <4>3. ~Ahead(37) BY <2>1, <1>4 DEF Ahead
      <4> QED BY <4>2, <4>3 DEF HasRow
    <3> QED BY <3>1
  <2>3. Parents(w, i) = S BY <1>6, <2>1, <2>2
  <2>4. ASSUME NEW e \in stored, NEW kind \in RefKinds(e[1]), NEW t \in OfKind(Entity, {kind})
        PROVE  <<e, t>> \in edge' <=> IF e \in S /\ kind \in i.to THEN t \in naming[e] \cap shown
                                      ELSE <<e, t>> \in edge
    BY <1>8, <2>2, <2>3
  <2>5. shown' = shown \cup S /\ i.do \in {"rows", "links"} BY <1>2, <2>2
  <2>6. S \subseteq OfKind(stored, {i.kind}) /\ OfKind(fresh, {i.kind}) \subseteq S BY <1>5
  <2>7. /\ Following(w)
        /\ UNCHANGED <<book, stored, naming, fresh, owed, hand, view, scope, newly>>
    BY <1>2
  <2>8. Repoints(w, i, S) BY <2>4, <2>5, <2>6, <2>7 DEF Repoints
  <2> QED BY <1>1, <1>4, <2>8, PassKeeps
<1> QED BY <1>9, <1>10

-----------------------------------------------------------------------------
(* Records find each other.                                                *)

\* The invariant holds after every step.
LEMMA RefsStep ==
  ASSUME ~RunsOverlap, Fixed, WellBooked, OwnInboxes, EntityTypes, RefsInv, [EntityNext]_entityVars
  PROVE  RefsInv'
<1>1. CASE UNCHANGED entityVars
  BY <1>1, SameRefs DEF entityVars, crmState, rawState, platState, runState
<1>2. ASSUME NEW e \in Entity, NEW t \in Book[e], Assign(e, t) PROVE RefsInv'
  BY <1>2, AssignRefs
<1>3. ASSUME NEW v \in OfKind(Entity, {"visit"}), DeleteVisit(v) PROVE RefsInv'
  BY <1>3, SameRefs DEF DeleteVisit, rawState, platState, runState
<1>4. ASSUME NEW w \in Worker, NEW J \in SUBSET OfKind(Entity, {"job"}) \ {{}}, Begin(w, J)
      PROVE  RefsInv'
  BY <1>4, BeginRefs
<1>5. ASSUME NEW w \in Worker, FanOutStep(w) PROVE RefsInv'
  BY <1>5, DetailRefs, PeopleRefs, VisitListRefs, PruneRefs, CancelRefs, CommentsRefs, PutRefs
     DEF FanOutStep
<1>6. ASSUME NEW w \in Worker, NormalizeStep(w) PROVE RefsInv'
  BY <1>6, BeginPassRefs, ReadRefs, RowPassRefs, LinkPassRefs, EndRefs DEF NormalizeStep
<1>7. ASSUME NEW w \in Worker, RunDies(w) PROVE RefsInv' BY <1>7, EndRefs
<1> QED BY <1>1, <1>2, <1>3, <1>4, <1>5, <1>6, <1>7 DEF EntityNext

\* The invariant holds at the start.
LEMMA RefsInit == EntityInit => RefsInv
<1> SUFFICES ASSUME EntityInit PROVE RefsInv OBVIOUS
<1> USE DEF EntityInit
<1>1. Honest BY EntityAssumption DEF Honest, OfKind
<1>2. Held BY DEF Held
<1>3. Closed BY DEF Closed
<1>4. Reading BY DEF Reading
<1>5. Linked BY DEF Linked
<1> QED BY <1>1, <1>2, <1>3, <1>4, <1>5 DEF RefsInv

\* The statements that fetch and store repair nothing.
LEMMA PutsFiltered ==
  ASSUME NEW n \in 1 .. 20
  PROVE  ~Program[n].filtered
<1>1. n \in 1 .. 49 OBVIOUS
<1>2. Program[n] = Listing[n] BY <1>1, ProgramListed
<1>3. Listing[n].filtered = FALSE BY Listed DEF Do, Put
<1> QED BY <1>2, <1>3

\* No filtered pass resolves anything else.
LEMMA RefersKinds ==
  ASSUME NEW kind
  PROVE  Refers(kind) \subseteq RefKinds(kind)
<1> SUFFICES ASSUME NEW m \in 1 .. Len(Program), Program[m].kind = kind, Program[m].filtered
             PROVE  Program[m].to \subseteq RefKinds(kind)
  BY DEF Refers
<1>1. m \in 1 .. 49 BY Numbers DEF AtFinish
<1>2. Program[m] = Listing[m] BY <1>1, ProgramListed
<1>3. CASE m \in 1 .. 20
  <2>1. ~Program[m].filtered BY <1>3, PutsFiltered
  <2> QED BY <2>1
<1>4. CASE m \in {21, 49}
  <2>1. ~Listing[m].filtered BY <1>4, PassesListed DEF Do
  <2> QED BY <1>2, <2>1
<1>5. CASE m \in 22 .. 48 BY <1>5, PassesAt
<1>6. m \in 1 .. 20 \/ m \in {21, 49} \/ m \in 22 .. 48 BY <1>1
<1> QED BY <1>3, <1>4, <1>5, <1>6

\* With no run at work and no job owed, nothing is still to come.
LEMMA RefsAtRest ==
  ASSUME EntityTypes, RefsInv, OwnInboxes
  PROVE  RefsHeal
<1> SUFFICES ASSUME owed = {}, NEW e \in stored \ fresh
             PROVE  e \in shown /\ Known(e) = Due(e)
  BY DEF RefsHeal
<1>1. stored \subseteq Entity /\ naming \in [Entity -> SUBSET Entity] /\ edge \subseteq shown \X shown
      /\ shown \subseteq Entity /\ Linked
  BY DEF EntityTypes, RawTypes, PlatformTypes, RefsInv
<1>2. e \in shown BY <1>1 DEF Linked, HasRow
<1>3. \A kind \in RefKinds(e[1]) : Right(e, kind) BY <1>1 DEF Linked, HasRefs, InDebt
<1>4. ASSUME NEW t \in Entity, t[1] \in Refers(e[1])
      PROVE  <<e, t>> \in edge <=> t \in naming[e] \cap shown
  <2>1. t[1] \in RefKinds(e[1]) /\ t \in OfKind(Entity, {t[1]}) BY <1>4, RefersKinds DEF OfKind
  <2> QED BY <1>3, <2>1 DEF Right
<1>5. Due(e) = OfKind(naming[e], Refers(e[1])) \cap shown
  <2>1. OfKind(naming[e], Refers(e[1])) \subseteq Entity BY <1>1 DEF OfKind
  <2>2. \A t \in OfKind(naming[e], Refers(e[1])) : Survives(t) = t BY <1>1, <2>1, NobodyMerges
  <2>3. {Survives(t) : t \in OfKind(naming[e], Refers(e[1]))} = OfKind(naming[e], Refers(e[1]))
    BY <2>2
  <2> QED BY <2>3 DEF Due
<1>6. ASSUME NEW t
      PROVE  t \in Known(e) <=> t \in Entity /\ t[1] \in Refers(e[1]) /\ <<e, t>> \in edge
  <2>1. ASSUME NEW x \in edge PROVE x = <<x[1], x[2]>> /\ x[2] \in Entity BY <1>1
  <2>2. t \in Known(e) <=> \E x \in edge : x[1] = e /\ x[2][1] \in Refers(e[1]) /\ t = x[2]
    BY DEF Known
  <2>3. <<e, t>>[1] = e /\ <<e, t>>[2] = t OBVIOUS
  <2> QED BY <2>1, <2>2, <2>3
<1>7. ASSUME NEW t
      PROVE  t \in Due(e) <=> t \in Entity /\ t[1] \in Refers(e[1]) /\ t \in naming[e] \cap shown
  BY <1>1, <1>5 DEF OfKind
<1>8. \A t : t \in Known(e) <=> t \in Due(e) BY <1>4, <1>6, <1>7
<1>9. Known(e) = Due(e)
  <2>1. \A X, Y : (\A t : t \in X <=> t \in Y) => X = Y OBVIOUS
  <2> QED BY <1>8, <2>1
<1> QED BY <1>2, <1>9

\* Records find each other (servicetrade/provider.js: incremental passes,
\* repair of unresolved references, repointing of contacts).  When no two runs
\* overlap, dispatchers change neither the job a record is about nor its customer
\* or location, the records are booked as ServiceTrade books jobs and visits, and
\* no two people share an e-mail address, then at rest, once no job of a run that
\* died is owed, every raw row below the watermark has its platform row with
\* exactly the references its payload names, whatever was reassigned, deleted,
\* not answered or cut short before.
THEOREM RecordsFound ==
  ASSUME ~RunsOverlap, Fixed, WellBooked, OwnInboxes
  PROVE  EntitySpec => []RefsHeal
<1>1. EntityInit => EntityTypes /\ RefsInv BY EntityTypesInit, RefsInit
<1>2. EntityTypes /\ RefsInv /\ [EntityNext]_entityVars => (EntityTypes /\ RefsInv)'
  BY EntityTypesStep, RefsStep
<1>3. EntityTypes /\ RefsInv => RefsHeal BY RefsAtRest
<1> QED BY <1>1, <1>2, <1>3, PTL DEF EntitySpec

-----------------------------------------------------------------------------
(* Both.                                                                   *)

\* A behaviour of the two together is one of each.
LEMMA BothParts == BothSpec => Spec /\ EntitySpec
<1>1. BothInit => Init /\ EntityInit BY DEF BothInit
<1>2. [BothNext]_bothVars => [Next]_vars /\ [EntityNext]_entityVars
  BY DEF BothNext, bothVars
<1> QED BY <1>1, <1>2, PTL DEF BothSpec, Spec, EntitySpec

\* Every variable of the two keeps its type.
THEOREM BothTyped ==
  ASSUME ~RunsOverlap
  PROVE  BothSpec => []BothTypeOK
<1>1. Spec => []TypeOK BY MirrorTypes
<1>2. EntitySpec => []EntityTypeOK BY EntityTyped
<1>3. TypeOK /\ EntityTypeOK => BothTypeOK BY DEF BothTypeOK
<1> QED BY <1>1, <1>2, <1>3, BothParts, PTL
=============================================================================
