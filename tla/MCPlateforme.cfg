SPECIFICATION PlateformeSpec
CONSTANTS
  Users = {u1, u2, u3}
  Requests = {r1}
  Calls = {c1, c2, c3}
  Nobody = Nobody
  NoRequest = NoRequest
  Parts = {"approval", "source", "secrets", "client", "partage", "historique",
           "acces", "shield", "periodes", "indicateurs",
           "gouvernance", "catalogue", "odoo", "echeances",
           "automates", "conversation", "navigateur"}
  Equipe = {e1, e2}
  Titulaires = {n1, n2}
  Disruptions = {"lent", "rejeu", "arret", "crash", "expire", "cache"}
  Types = {"kaydan_shield", "odoo_hr"}
  Essais = 1
  MaxSecrets = 1
  MaxJobs = 1
  MaxAttempts = 2
  MaxRequests = 3
  MaxArbitrages = 3
  MaxReads = 3
  Sites = {"s1"}
  MaxDay = 1
  MaxChanges = 1
  MaxRuns = 2
  Automations = {"a1", "a2"}
  Intervalle = 2
  MaxTemps = 2
  MaxTroubles = 1
  MaxConversations = 2
  MaxConnexions = 2
  Demandes = {1, 60, 91, 424, 425, 456, 457, 731, 790, 821, 913}
  DatesTapees = {100, 424, 500, 731, 800}
  JoursLus = 3
  CodesLus = {1, 2}
  Valeurs = {0, 2}
  JoursEnvoi <- MesJours
  HeuresEnvoi = {0, 6, 7, 8, 23}
  Bornes <- MesBornes
  MesuresRh <- MesMesures
  MaxConstats = 4
  MaxMois = 2
  MaxEmployes = 2
  FilialesNotees = {"KRE", "KSH"}
  MoisMontres = 2
  MaxCompte = 2
  JoursSerie = 3
  MaxLignes = 2
  MaxFiches = 2
  MinMesures = 1
  SocietesLues = {"O1", "O2"}
  MaxLus = 2
  MaxPostes = 1
  Tours = Tours
  Promo = Promo
  Filiales = {Tours, Promo}
  SocietesOdoo = {O1, O2}
  SocietesShield = {K1, K2}
  CompanyMapping <- MaCorrespondance
  Comptes <- MesComptes
  K1 = K1
  K2 = K2
  Aucune = Aucune
  Tous = Tous
  Neant = Neant
SYMMETRY PlateformeSymmetry
INVARIANTS
  TypeOK
  RunsAtMostOnce
  FourEyes
  PartTypeOK
  Prouve
  PersonneNAttendPourRien
  AppelsComptes
  OneCollector
  ArbitrageSuivi
  JourneesEntieres
  PerimetreTenu
  PortesConcordent
  LectureFidele
  PeriodesComparables
  JugementsCoherents
  MartFidele
  QuestionFondee
  CopiloteTenu
  SessionTenue
PROPERTIES
  RunsForEntitledRequester
  DecisionsAreFinal
  KeepsPromise
  NeverOlder
CHECK_DEADLOCK FALSE
