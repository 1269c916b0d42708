---------------------------- MODULE NetworkViews ----------------------------
(***************************************************************************)
(* The contacts of the users, and whom the program's views take from them: *)
(* the pages of people, companies and postings (ContactsService,           *)
(* JobDiscoveryService), strong ties (strong_tie_matcher), queries of the  *)
(* network (NetworkQueryService), companies to approach                    *)
(* (TargetCompaniesService) and outreach (NextStepsService).  A view is    *)
(* the set of persons its statement selects; how a row is worded, and the  *)
(* order of rows, are left out.                                            *)
(***************************************************************************)
EXTENDS Naturals, FiniteSets, Accounts

CONSTANTS Persons, Orgs

ASSUME ViewsAssumption == None \notin Persons \union Orgs

VARIABLES persons,  (* the person rows that exist                          *)
          obs,      (* what each user has observed of each person; {} for  *)
                    (* no row in user_person_observations                  *)
          about,    (* what else is known of a person, from any user       *)
          org,      (* current_org_id                                      *)
          me,       (* users.person_id                                     *)
          private,  (* the rows of contact_privacy_labels: PRIVATE         *)
          friends   (* the active trust list memberships                   *)

tables == <<persons, obs, about, org, me, private, friends>>

(* relationship_types, then the other columns of an observation: the three *)
(* classes and email_count > 0.                                            *)
Types == {"phone", "linkedin", "google", "contact", "calendar"}
Flags == {"human", "broadcast", "automated", "email"}
(* An alias of kind linkedin_url, whether the first of them names a        *)
(* profile, a claim of the LinkedIn scraper, a number on the person's row. *)
AboutFlags == {"linked", "slug", "scraped", "numbered"}

Knows(u) == {p \in persons : obs[u][p] # {}}
Having(u, marks) == {p \in Knows(u) : marks \subseteq obs[u][p]}
Without(u, marks) == {p \in Knows(u) : marks \cap obs[u][p] = {}}
Are(mark) == {p \in persons : mark \in about[p]}
At(o) == {p \in persons : org[p] = o}
Employed == {p \in persons : org[p] # None}

TrustMembers(u) == {m \in Users : {u, m} \in friends /\ m # u}
Private(m) == {p \in persons : <<m, p>> \in private}
MeOf(u) == {me[u]} \ {None}

-----------------------------------------------------------------------------
(* The own contacts of a user.                                             *)

(* A contact is in the network when it is both in the address book and on  *)
(* LinkedIn and its profile is known.                                      *)
InNetwork(u) == Having(u, {"phone", "linkedin"}) \intersect Are("linked")
(* Whose page there is, and who is on a company's page: any contact.       *)
GetPerson(u) == Knows(u)
OwnOrgPeople(u, o) == Knows(u) \intersect At(o)
(* Among whom are the ten, at most, a user is asked to write to about a    *)
(* posting of the company.                                                 *)
OutreachContacts(u, o) == OwnOrgPeople(u, o) \intersect Are("numbered")

(* Strong ties are counted by the query, but listed and sent to the        *)
(* scraper only if their first LinkedIn URL names a profile.               *)
People(u) == Having(u, {"human"}) \intersect Without(u, {"broadcast", "automated"})
Personal(u) == Having(u, {"phone"}) \union Having(u, {"google"}) \union
               (Having(u, {"email"}) \intersect People(u))
StrongTies(u) == Having(u, {"linkedin"}) \intersect Personal(u) \intersect Are("linked")
                   \intersect People(u)
ListedTies(u) == StrongTies(u) \intersect Are("slug")
Unscraped(u) == StrongTies(u) \ Are("scraped")

-----------------------------------------------------------------------------
(* What each view selects of the contacts of the trusted user m, before    *)
(* labels and limits.                                                      *)

SharedPeople(m) == InNetwork(m)
SharedOrgs(m) == InNetwork(m) \intersect Employed
SharedSummaries(m, o) == InNetwork(m) \intersect At(o)
SharedOrgPeople(m, o) == Knows(m) \intersect At(o)
BridgeContacts(m, o) == InNetwork(m) \intersect At(o)
(* Any plan may be asked for, so any of the contacts may match.            *)
ExecutePlanRaw(m) == Knows(m)
(* Which of them are vouched for well enough is left open.                 *)
Insiders(m) == Without(m, {"broadcast"}) \intersect Employed

=============================================================================
